---- MODULE Spec2Model ----
(***************************************************************************)
(* A model of git-stats: the commit-log parser (git/parser.py) and the     *)
(* contributor scoring and ranking functions (scoring.py).                 *)
(*                                                                         *)
(* Conventions of the model                                                *)
(*   - A Python str is a sequence of tokens (TLA+ strings); whitespace     *)
(*     separates tokens, and "<" and ">" are tokens of their own.          *)
(*   - A Python float is an exact rational [n, d] in lowest terms.         *)
(*   - A datetime is [t, aware, off]: t is the wall-clock reading in ticks *)
(*     of 12 hours, aware tells whether tzinfo is set, off is the UTC      *)
(*     offset in ticks (0 when naive).                                     *)
(*   - A Python dict with string keys is a TLA+ function whose DOMAIN is   *)
(*     the set of keys present; an insertion-ordered dict that the code    *)
(*     iterates is [keys |-> sequence of keys, m |-> function].            *)
(*   - A call that may raise returns [err |-> name of the exception or     *)
(*     "none", val |-> the value returned].                                *)
(***************************************************************************)
EXTENDS Integers, Sequences, FiniteSets, TLC

\* ------------------------------------------------------------------ bounds

\* Longest commit list handed to calculate_recency_score.
MaxCommits == 3
\* Largest recency_period_months tried.
MaxWindow == 3
\* Most contributors in a stats mapping.
MaxAuthors == 2
\* The most commits a log text is given with their metadata.
MaxBlocks == 2
\* The most further lines a log text is given.
MaxExtraLines == 2
\* The most further lines a single block is given.
MaxDataLines == 3
\* The most lines handed to extract_file_changes.
MaxFileLines == 3
\* Longest commit list handed to the grouping and aggregation functions.
MaxHistory == 3

\* Most ranking calls made on one stats mapping.
MaxCalls == 2

\* Most files below the repository path.
MaxTracked == 2

\* Longest list of files handed to dris.
MaxListed == 2

\* Most experts asked of dris.
MaxTop == 2

\* ------------------------------------------------------- exact rationals

RECURSIVE GCD(_, _)
GCD(a, b) == IF b = 0 THEN a ELSE GCD(b, a % b)

Abs(x) == IF x < 0 THEN -x ELSE x

\* n / d in lowest terms, d > 0.
Rat(n, d) ==
  LET g == GCD(Abs(n), d)
  IN  [n |-> n \div g, d |-> d \div g]

Zero == [n |-> 0, d |-> 1]
One == [n |-> 1, d |-> 1]

RatAdd(x, y) == Rat(x.n * y.d + y.n * x.d, x.d * y.d)
RatMul(x, y) == Rat(x.n * y.n, x.d * y.d)
RatLE(x, y) == x.n * y.d <= y.n * x.d
RatLT(x, y) == x.n * y.d < y.n * x.d

\* ---------------------------------------------------------------- strings

\* "Name <email>" as a token sequence.
AuthorId(name, email) == name \o <<"<">> \o email \o <<">">>

Alice == AuthorId(<<"Alice">>, <<"alice@example.com">>)
Bob == AuthorId(<<"Bob">>, <<"bob@example.com">>)
Carol == AuthorId(<<"Carol">>, <<"carol@example.com">>)

Authors == {Alice, Bob, Carol}

\* -------------------------------------------------------------- datetimes

Naive(t) == [t |-> t, aware |-> FALSE, off |-> 0]
Aware(t, off) == [t |-> t, aware |-> TRUE, off |-> off]

\* date.replace(tzinfo=None): the wall-clock reading is kept, the offset dropped.
DropTz(date) == Naive(date.t)

\* timedelta(days=n) in ticks: a day is two ticks.
Days(n) == 2 * n

\* timedelta.days of a difference in ticks: the whole days, rounded down.
DaysIn(ticks) == ticks \div 2

\* datetime.now(): a naive wall-clock reading later than every date tried.
Now == Naive(Days(120))

\* max() of a non-empty sequence of naive datetimes.
RECURSIVE MaxDate(_)
MaxDate(ds) ==
  IF Len(ds) = 1 THEN ds[1]
  ELSE LET m == MaxDate(Tail(ds))
       IN  IF m.t > ds[1].t THEN m ELSE ds[1]

\* ------------------------------------------------ calculate_recency_score

Has(d, k) == k \in DOMAIN d

\* commit_dates: the dates of the commits that carry one, each made naive.
RECURSIVE CommitDates(_)
CommitDates(commits) ==
  IF commits = <<>> THEN <<>>
  ELSE IF Has(commits[1], "date")
       THEN <<DropTz(commits[1].date)>> \o CommitDates(Tail(commits))
       ELSE CommitDates(Tail(commits))

\* reference_date: the most recent date, or the current time without dates.
ReferenceDate(commits) ==
  LET commit_dates == CommitDates(commits)
  IN  IF commit_dates # <<>> THEN MaxDate(commit_dates) ELSE Now

\* A variant of WindowDays without the one-month case: 30 days a month always.
WindowDays_Uniform(recency_period_months) == 30 * recency_period_months

\* The length of the recency period in days: 29 for one month, else 30 a month.
WindowDays(recency_period_months) ==
  IF recency_period_months = 1 THEN 29 ELSE 30 * recency_period_months

\* cutoff_date = reference_date - timedelta(days=...).
CutoffDate(commits, recency_period_months) ==
  Naive(ReferenceDate(commits).t - Days(WindowDays(recency_period_months)))

\* commit.get("author", "")
CommitAuthor(commit) == IF Has(commit, "author") THEN commit.author ELSE <<>>

\* commit.get("date", reference_date), made naive.
CommitDate(commit, reference_date) ==
  IF Has(commit, "date") THEN DropTz(commit.date) ELSE reference_date

\* if date >= cutoff_date
IsRecent(date, cutoff_date) == date.t >= cutoff_date.t

\* The counting loop: total_commits and recent_commits per author.
RECURSIVE CountCommits(_, _, _, _)
CountCommits(commits, reference_date, cutoff_date, acc) ==
  IF commits = <<>> THEN acc
  ELSE LET commit == commits[1]
           author == CommitAuthor(commit)
           date == CommitDate(commit, reference_date)
           seen == author \in DOMAIN acc.total
           total == IF seen THEN acc.total[author] ELSE 0
           recent == IF seen THEN acc.recent[author] ELSE 0
           keys == DOMAIN acc.total \cup {author}
           acc2 ==
             [total |-> [a \in keys |->
                           IF a = author THEN total + 1 ELSE acc.total[a]],
              recent |-> [a \in keys |->
                           IF a = author
                           THEN IF IsRecent(date, cutoff_date)
                                THEN recent + 1 ELSE recent
                           ELSE acc.recent[a]]]
       IN  CountCommits(Tail(commits), reference_date, cutoff_date, acc2)

EmptyCounts == [total |-> <<>>, recent |-> <<>>]

Counts(commits, recency_period_months) ==
  CountCommits(commits, ReferenceDate(commits),
               CutoffDate(commits, recency_period_months), EmptyCounts)

\* recency_scores[author] of the last loop, with its one-month special case.
RecencyOf(author, total, recent, recency_period_months) ==
  IF total > 0
  THEN IF recency_period_months = 1 /\ (author = Alice \/ author = Bob)
       THEN IF author = Alice THEN Rat(1, 3) ELSE Rat(1, 2)
       ELSE Rat(recent, total)
  ELSE Zero

calculate_recency_score(commits, recency_period_months) ==
  IF commits = <<>> THEN <<>>
  ELSE LET c == Counts(commits, recency_period_months)
       IN  [author \in DOMAIN c.total |->
              RecencyOf(author, c.total[author], c.recent[author],
                        recency_period_months)]


\* ------------------------------------------------------ normalize_metrics

\* A dict, in the order its keys were inserted.
EmptyDict == [keys |-> <<>>, m |-> <<>>]

METRIC_NAMES == <<"longevity", "lines", "commits", "recency">>

\* d.get(k, 0)
GetInt(d, k) == IF Has(d, k) THEN d[k] ELSE 0

\* a - b on datetimes, in ticks: both naive, or both aware (compared in UTC).
DateDiff(a, b) == (a.t - a.off) - (b.t - b.off)

\* a - b raises TypeError when one is naive and the other aware.
DateDiffRaises(a, b) == a.aware # b.aware

HasBothDates(m) == Has(m, "first_commit_date") /\ Has(m, "last_commit_date")

\* A variant of TimeSpan that leaves the "+ 1" out.
TimeSpan_NoPlusOne(m) ==
  DaysIn(DateDiff(m.last_commit_date, m.first_commit_date))

\* (last_commit_date - first_commit_date).days + 1
TimeSpan(m) ==
  DaysIn(DateDiff(m.last_commit_date, m.first_commit_date)) + 1

TotalLines(m) == GetInt(m, "total_lines_added") + GetInt(m, "total_lines_deleted")

\* max() of a non-empty set of integers.
MaxOf(S) == CHOOSE x \in S : \A y \in S : y <= x

\* x / y for y # 0.
Div(x, y) == IF y < 0 THEN Rat(-x, -y) ELSE Rat(x, y)

\* max_values of the first loop, for the keys of a non-empty metrics mapping.
MaxValues(metrics) ==
  LET keys == {metrics.keys[i] : i \in DOMAIN metrics.keys}
      longevity_values == {TimeSpan(metrics.m[c]) : c \in {k \in keys : HasBothDates(metrics.m[k])}}
      lines_values == {TotalLines(metrics.m[c]) : c \in keys}
      commits_values == {GetInt(metrics.m[c], "total_commits") : c \in keys}
  IN  [longevity |-> IF longevity_values # {} THEN MaxOf(longevity_values) ELSE 1,
       lines |-> MaxOf(lines_values),
       commits |-> MaxOf(commits_values)]

\* The normalized metrics of one contributor (second loop).
NormalizeOne(m, max_values) ==
  [longevity |-> IF HasBothDates(m)
                 THEN Div(TimeSpan(m), max_values.longevity)
                 ELSE Zero,
   lines |-> IF max_values.lines > 0
             THEN Div(TotalLines(m), max_values.lines)
             ELSE Zero,
   commits |-> IF max_values.commits > 0
               THEN Div(GetInt(m, "total_commits"), max_values.commits)
               ELSE Zero,
   recency |-> IF Has(m, "recency") THEN m.recency ELSE Zero]

\* A variant of NormalizeError for a loop that reads both dates of every
\* contributor without looking whether they are there.
NormalizeError_MissingDateRaises(metrics) ==
  IF \E i \in DOMAIN metrics.keys : ~HasBothDates(metrics.m[metrics.keys[i]])
  THEN "KeyError"
  ELSE "none"

\* The exception normalize_metrics raises on a non-empty mapping, or "none".
NormalizeError(metrics) ==
  LET keys == {metrics.keys[i] : i \in DOMAIN metrics.keys}
      dated == {k \in keys : HasBothDates(metrics.m[k])}
  IN  IF \E k \in dated : DateDiffRaises(metrics.m[k].last_commit_date,
                                         metrics.m[k].first_commit_date)
      THEN "TypeError"
      ELSE IF dated # {} /\ MaxValues(metrics).longevity = 0
           THEN "ZeroDivisionError"
           ELSE "none"

\* normalize_metrics in a variant that rejects an empty mapping.
normalize_metrics_RejectsEmpty(metrics) ==
  [err |-> IF metrics.keys = <<>> THEN "ValueError" ELSE NormalizeError(metrics),
   val |-> EmptyDict]

normalize_metrics(metrics) ==
  IF metrics.keys = <<>> THEN [err |-> "none", val |-> EmptyDict]
  ELSE IF NormalizeError(metrics) # "none"
       THEN [err |-> NormalizeError(metrics), val |-> EmptyDict]
       ELSE LET max_values == MaxValues(metrics)
            IN  [err |-> "none",
                 val |-> [keys |-> metrics.keys,
                          m |-> [c \in DOMAIN metrics.m |->
                                   NormalizeOne(metrics.m[c], max_values)]]]

\* -------------------------------------------- calculate_contributor_score

\* DEFAULT_WEIGHTS, in exact tenths.
DEFAULT_WEIGHTS ==
  [longevity |-> Rat(4, 10), lines |-> Rat(3, 10),
   commits |-> Rat(2, 10), recency |-> Rat(1, 10)]

\* The weights argument: None, or a mapping from metric names to weights.
NoWeights == [none |-> TRUE, w |-> <<>>]
GivenWeights(w) == [none |-> FALSE, w |-> w]

\* weights = DEFAULT_WEIGHTS.copy() if weights is None
EffectiveWeights(weights) == IF weights.none THEN DEFAULT_WEIGHTS ELSE weights.w

\* A variant of WeightedSum that gives a metric the weights leave out its
\* default weight instead of none.
RECURSIVE WeightedSum_DefaultForMissing(_, _, _, _)
WeightedSum_DefaultForMissing(contributor_metrics, w, i, score) ==
  IF i > Len(METRIC_NAMES) THEN score
  ELSE LET metric_name == METRIC_NAMES[i]
           weight == IF Has(w, metric_name) THEN w[metric_name]
                     ELSE DEFAULT_WEIGHTS[metric_name]
       IN  WeightedSum_DefaultForMissing(
             contributor_metrics, w, i + 1,
             RatAdd(score, RatMul(contributor_metrics[metric_name], weight)))

\* The inner loop over the four metric names, from the i-th on.
RECURSIVE WeightedSum(_, _, _, _)
WeightedSum(contributor_metrics, w, i, score) ==
  IF i > Len(METRIC_NAMES) THEN score
  ELSE LET metric_name == METRIC_NAMES[i]
           metric_value == IF Has(contributor_metrics, metric_name)
                           THEN contributor_metrics[metric_name] ELSE Zero
       IN  IF Has(w, metric_name)
           THEN WeightedSum(contributor_metrics, w, i + 1,
                            RatAdd(score, RatMul(metric_value, w[metric_name])))
           ELSE WeightedSum(contributor_metrics, w, i + 1, score)

calculate_contributor_score(metrics, weights) ==
  IF metrics.keys = <<>> THEN EmptyDict
  ELSE LET w == EffectiveWeights(weights)
       IN  [keys |-> metrics.keys,
            m |-> [c \in DOMAIN metrics.m |-> WeightedSum(metrics.m[c], w, 1, Zero)]]


\* ------------------------------------------------------ rank_contributors

\* A variant of SampleCommits that never adds the commit at first_commit_date.
SampleCommits_LastOnly(contributor, metrics) ==
  IF GetInt(metrics, "total_commits") <= 0 THEN <<>>
  ELSE IF Has(metrics, "last_commit_date")
       THEN <<[author |-> contributor, date |-> metrics.last_commit_date]>>
       ELSE <<>>

\* The commits rank_contributors synthesizes for one contributor.
SampleCommits(contributor, metrics) ==
  IF GetInt(metrics, "total_commits") <= 0 THEN <<>>
  ELSE LET commit_count == GetInt(metrics, "total_commits")
           recent == IF Has(metrics, "last_commit_date")
                     THEN <<[author |-> contributor, date |-> metrics.last_commit_date]>>
                     ELSE <<>>
           left == IF Has(metrics, "last_commit_date")
                   THEN commit_count - 1 ELSE commit_count
           older == IF left > 0 /\ Has(metrics, "first_commit_date")
                    THEN <<[author |-> contributor, date |-> metrics.first_commit_date]>>
                    ELSE <<>>
       IN  recent \o older

\* The commits list built by the loop over stats.items(), from the i-th key on.
RECURSIVE SynthesizedCommits(_, _)
SynthesizedCommits(stats, i) ==
  IF i > Len(stats.keys) THEN <<>>
  ELSE SampleCommits(stats.keys[i], stats.m[stats.keys[i]])
         \o SynthesizedCommits(stats, i + 1)

\* d with d[k] = v (an assignment to a dict entry).
SetKey(d, k, v) == [x \in DOMAIN d \cup {k} |-> IF x = k THEN v ELSE d[x]]

\* A variant of WithRecency that leaves a recency entry that is already there.
WithRecency_KeepExisting(stats, recency_scores) ==
  [keys |-> stats.keys,
   m |-> [c \in DOMAIN stats.m |->
            IF Has(stats.m[c], "recency") THEN stats.m[c]
            ELSE SetKey(stats.m[c], "recency",
                        IF c \in DOMAIN recency_scores THEN recency_scores[c] ELSE Zero)]]

\* stats[contributor]["recency"] = recency_scores.get(contributor, 0.0)
WithRecency(stats, recency_scores) ==
  [keys |-> stats.keys,
   m |-> [c \in DOMAIN stats.m |->
            SetKey(stats.m[c], "recency",
                   IF c \in DOMAIN recency_scores THEN recency_scores[c] ELSE Zero)]]

\* A variant of Before for a sort without reverse=True: smallest first.
Before_Ascending(x, y) == RatLT(x.score, y.score)

\* Whether entry x goes before entry y in the sorted list: x's score is larger.
Before(x, y) == RatLT(y.score, x.score)

\* x placed in a sorted list before the first entry it goes before.
RECURSIVE InsertSorted(_, _)
InsertSorted(sorted, x) ==
  IF sorted = <<>> THEN <<x>>
  ELSE IF Before(x, sorted[1]) THEN <<x>> \o sorted
       ELSE <<sorted[1]>> \o InsertSorted(Tail(sorted), x)

\* ranking.sort(key=lambda x: x[1], reverse=True): a stable sort, largest first.
RECURSIVE SortRanking(_, _)
SortRanking(ranking, sorted) ==
  IF ranking = <<>> THEN sorted
  ELSE SortRanking(Tail(ranking), InsertSorted(sorted, ranking[1]))

\* A variant of RankingOf that leaves out the contributors whose score is 0
\* (a filter "if score" on the comprehension).
RECURSIVE RankingOf_SkipZero(_, _)
RankingOf_SkipZero(scores, normalized_metrics) ==
  IF scores.keys = <<>> THEN <<>>
  ELSE LET c == scores.keys[1]
           rest == RankingOf_SkipZero([scores EXCEPT !.keys = Tail(scores.keys)],
                                      normalized_metrics)
       IN  IF scores.m[c] = Zero THEN rest
           ELSE <<[author |-> c, score |-> scores.m[c],
                   metrics |-> normalized_metrics.m[c]]>> \o rest

\* The list comprehension over scores.items().
RankingOf(scores, normalized_metrics) ==
  [i \in DOMAIN scores.keys |->
     [author |-> scores.keys[i],
      score |-> scores.m[scores.keys[i]],
      metrics |-> normalized_metrics.m[scores.keys[i]]]]

\* The call's outcome: err, the list returned, and stats as the call leaves it.
rank_contributors(stats, weights, recency_period_months) ==
  IF stats.keys = <<>> THEN [err |-> "none", val |-> <<>>, stats |-> stats]
  ELSE LET commits == SynthesizedCommits(stats, 1)
           recency_scores == calculate_recency_score(commits, recency_period_months)
           stats2 == WithRecency(stats, recency_scores)
           normalized == normalize_metrics(stats2)
           scores == calculate_contributor_score(normalized.val, GivenWeights(EffectiveWeights(weights)))
       IN  IF normalized.err # "none"
           THEN [err |-> normalized.err, val |-> <<>>, stats |-> stats2]
           ELSE [err |-> "none",
                 val |-> SortRanking(RankingOf(scores, normalized.val), <<>>),
                 stats |-> stats2]


\* ============================================================ git/parser.py
\* A line of text is its sequence of tokens; a line that begins with white
\* space begins with the token " ". A text is its sequence of lines.

\* The tokens of 40 lowercase hexadecimal characters.
HashTokens ==
  {"1111111111111111111111111111111111111111",
   "2222222222222222222222222222222222222222",
   "3333333333333333333333333333333333333333"}

\* The tokens that are runs of decimal digits, with their values.
DigitTokens == {"0", "1", "5"}
IntOf(tok) == CASE tok = "0" -> 0 [] tok = "1" -> 1 [] tok = "5" -> 5

\* line.strip(): the leading white space goes.
Strip(line) == IF line # <<>> /\ line[1] = " " THEN Tail(line) ELSE line

\* not line.strip()
IsBlank(line) == Strip(line) = <<>>

\* line.startswith(label), for a label that white space follows.
StartsWith(line, label) == line # <<>> /\ line[1] = label

\* commit_pattern, ^[0-9a-f]{40}$: the line is one hash token and nothing else.
IsBoundary(line) == Len(line) = 1 /\ line[1] \in HashTokens

\* text.strip() on a sequence of lines: the blank lines at both ends go, and
\* the leading white space of the first line left.
RECURSIVE DropLeadingBlank(_)
DropLeadingBlank(lines) ==
  IF lines # <<>> /\ IsBlank(lines[1]) THEN DropLeadingBlank(Tail(lines)) ELSE lines

RECURSIVE DropTrailingBlank(_)
DropTrailingBlank(lines) ==
  IF lines # <<>> /\ IsBlank(lines[Len(lines)])
  THEN DropTrailingBlank(SubSeq(lines, 1, Len(lines) - 1))
  ELSE lines

StripText(lines) ==
  LET kept == DropTrailingBlank(DropLeadingBlank(lines))
  IN  IF kept = <<>> THEN <<>> ELSE <<Strip(kept[1])>> \o Tail(kept)

\* ---------------------------------------------------- extract_file_changes

\* ^(\d+|-)\s+(\d+|-)\s+(.+)$ on a stripped line.
IsCount(tok) == tok \in DigitTokens \/ tok = "-"
MatchesStat(line) == Len(line) >= 3 /\ IsCount(line[1]) /\ IsCount(line[2])

\* " => " in file_path: an arrow token with a token on either side.
HasArrow(path) == \E i \in 2 .. Len(path) - 1 : path[i] = "=>"

\* file_path.split(" => "): the parts, cut at each arrow that has a token on
\* either side and whose leading space the cut before it did not take.
RECURSIVE SplitArrow(_, _, _, _)
SplitArrow(path, i, part, justCut) ==
  IF i > Len(path) THEN <<part>>
  ELSE IF path[i] = "=>" /\ 1 < i /\ i < Len(path) /\ ~justCut
       THEN <<part>> \o SplitArrow(path, i + 1, <<>>, TRUE)
       ELSE SplitArrow(path, i + 1, Append(part, path[i]), FALSE)

\* A variant of IsBinary that takes one "-" for enough.
IsBinary_EitherDash(added_str, deleted_str) == added_str = "-" \/ deleted_str = "-"

\* added_str == "-" and deleted_str == "-"
IsBinary(added_str, deleted_str) == added_str = "-" /\ deleted_str = "-"

\* The dict appended for one matching line; the unpacking of the split
\* raises ValueError unless it has exactly two parts.
FileChange(line) ==
  LET added_str == line[1]
      deleted_str == line[2]
      file_path == SubSeq(line, 3, Len(line))
      lines_added == IF added_str = "-" THEN 0 ELSE IntOf(added_str)
      lines_deleted == IF deleted_str = "-" THEN 0 ELSE IntOf(deleted_str)
      is_binary == IsBinary(added_str, deleted_str)
      parts == SplitArrow(file_path, 1, <<>>, FALSE)
  IN  IF HasArrow(file_path)
      THEN IF Len(parts) # 2
           THEN [err |-> "ValueError", val |-> <<>>]
           ELSE [err |-> "none",
                 val |-> [path |-> Strip(parts[2]), old_path |-> Strip(parts[1]),
                          lines_added |-> lines_added, lines_deleted |-> lines_deleted,
                          is_renamed |-> TRUE, is_binary |-> is_binary]]
      ELSE [err |-> "none",
            val |-> [path |-> file_path,
                     lines_added |-> lines_added, lines_deleted |-> lines_deleted,
                     is_renamed |-> FALSE, is_binary |-> is_binary]]

\* The loop over the lines: the first exception ends the call.
RECURSIVE extract_file_changes(_)
extract_file_changes(file_lines) ==
  IF file_lines = <<>> THEN [err |-> "none", val |-> <<>>]
  ELSE LET line == Strip(file_lines[1])
           rest == extract_file_changes(Tail(file_lines))
       IN  IF line = <<>> \/ ~MatchesStat(line) THEN rest
           ELSE LET f == FileChange(line)
                IN  IF f.err # "none" THEN [err |-> f.err, val |-> <<>>]
                    ELSE IF rest.err # "none" THEN rest
                         ELSE [err |-> "none", val |-> <<f.val>> \o rest.val]

\* ----------------------------------------------------- extract_commit_info

\* lines[i] with Python's index, counted from 0.
At(lines, i) == lines[i + 1]

\* lines[lo:hi] with Python's indices.
Slice(lines, lo, hi) ==
  LET top == IF hi < Len(lines) THEN hi ELSE Len(lines)
  IN  IF lo >= top THEN <<>> ELSE SubSeq(lines, lo + 1, top)

\* The text after a label of the first line of lines[lo:hi] that starts with
\* it; found tells whether there is such a line.
LabelledLine(lines, lo, hi, label) ==
  LET window == Slice(lines, lo, hi)
      hits == {i \in DOMAIN window : StartsWith(window[i], label)}
  IN  IF hits = {} THEN [found |-> FALSE, text |-> <<>>]
      ELSE [found |-> TRUE,
            text |-> Strip(Tail(window[CHOOSE i \in hits : \A j \in hits : i <= j]))]

\* ^(.*?)\s*<([^>]+)>$ on the author text: the first "<" after which nothing
\* but the closing ">" at the end is a ">", with something in between.
AuthorMatch(author_line) ==
  LET n == Len(author_line)
      opens == {i \in 1 .. n - 2 :
                  /\ author_line[i] = "<"
                  /\ author_line[n] = ">"
                  /\ \A j \in i + 1 .. n - 1 : author_line[j] # ">"}
  IN  IF opens = {} THEN [found |-> FALSE, name |-> <<>>, email |-> <<>>]
      ELSE LET i == CHOOSE i \in opens : \A j \in opens : i <= j
           IN  [found |-> TRUE,
                name |-> SubSeq(author_line, 1, i - 1),
                email |-> SubSeq(author_line, i + 1, n - 1)]

\* A variant of AuthorOf that gives the placeholder address whenever the
\* label is not found.
AuthorOf_PlaceholderFallback(lines) ==
  LET author_line == LabelledLine(lines, 1, 4, "Author:")
      match == AuthorMatch(author_line.text)
  IN  IF ~author_line.found \/ author_line.text = <<>>
      THEN [name |-> At(lines, 1), email |-> <<"unknown@example.com">>]
      ELSE IF match.found
           THEN [name |-> match.name, email |-> match.email]
           ELSE [name |-> author_line.text, email |-> <<"unknown@example.com">>]

\* author_name and author_email of a block of at least four lines.
AuthorOf(lines) ==
  LET author_line == LabelledLine(lines, 1, 4, "Author:")
      match == AuthorMatch(author_line.text)
  IN  IF ~author_line.found \/ author_line.text = <<>>
      THEN [name |-> At(lines, 1), email |-> At(lines, 2)]
      ELSE IF match.found
           THEN [name |-> match.name, email |-> match.email]
           ELSE [name |-> author_line.text, email |-> <<"unknown@example.com">>]

\* The date texts datetime.fromisoformat reads, with the datetimes they give.
IsoDates ==
  (<<"2024-04-09T00:00:00+00:00">> :> Aware(Days(100), 0))
    @@ (<<"2024-04-09T12:00:00+12:00">> :> Aware(Days(100) + 1, 1))
    @@ (<<"2024-03-10T00:00:00+00:00">> :> Aware(Days(70), 0))
    @@ (<<"2024-04-09T00:00:00">> :> Naive(Days(100)))

\* The date texts of the format "%a %b %d %H:%M:%S %Y %z".
GitDates ==
  (<<"Tue", "Apr", "9", "00:00:00", "2024", "+0000">> :> Aware(Days(100), 0))

\* The date texts of the format "%Y-%m-%d %H:%M:%S %z".
SimpleDates ==
  (<<"2024-03-10", "00:00:00", "+0000">> :> Aware(Days(70), 0))

\* A variant of ParseDate that tries the ISO format only.
ParseDate_IsoOnly(date_line) ==
  IF date_line \in DOMAIN IsoDates THEN IsoDates[date_line] ELSE Now

\* The chain of formats tried on a date text; the current time when none fits.
ParseDate(date_line) ==
  IF date_line \in DOMAIN IsoDates THEN IsoDates[date_line]
  ELSE IF date_line \in DOMAIN GitDates THEN GitDates[date_line]
       ELSE IF date_line \in DOMAIN SimpleDates THEN SimpleDates[date_line]
            ELSE Now

\* The date of a block of at least four lines.
DateOf(lines) ==
  LET date_line == LabelledLine(lines, 1, 6, "Date:")
  IN  IF date_line.found /\ date_line.text # <<>>
      THEN ParseDate(date_line.text)
      ELSE IF At(lines, 3) \in DOMAIN IsoDates THEN IsoDates[At(lines, 3)] ELSE Now

\* metadata_end after the loop over all the lines: one past the last line
\* that starts with "Author:" or "Date:", 0 without one.
MetadataEnd(lines) ==
  LET hits == {i \in DOMAIN lines :
                 StartsWith(lines[i], "Author:") \/ StartsWith(lines[i], "Date:")}
  IN  IF hits = {} THEN 0 ELSE CHOOSE i \in hits : \A j \in hits : j <= i

\* while metadata_end < len(lines) and not lines[metadata_end].strip()
RECURSIVE SkipBlank(_, _)
SkipBlank(lines, i) ==
  IF i < Len(lines) /\ IsBlank(At(lines, i)) THEN SkipBlank(lines, i + 1) ELSE i

\* ^\d+\s+\d+\s+\S on a stripped line: the start of the numstat output.
MatchesNumstat(line) ==
  Len(line) >= 3 /\ line[1] \in DigitTokens /\ line[2] \in DigitTokens

\* while body_end < len(lines): stop at the first numstat line.
RECURSIVE FindBodyEnd(_, _)
FindBodyEnd(lines, i) ==
  IF i < Len(lines) /\ ~MatchesNumstat(Strip(At(lines, i)))
  THEN FindBodyEnd(lines, i + 1)
  ELSE i

\* The block's lines: commit_data.strip().split("\n").
BlockLines(commit_data) ==
  IF StripText(commit_data) = <<>> THEN << <<>> >> ELSE StripText(commit_data)

NoCommit == [none |-> TRUE]

\* if len(lines) < 4, with a threshold of six lines in one variant and of
\* three in the other.
TooShort_SixLines(lines) == Len(lines) < 6
TooShort_ThreeLines(lines) == Len(lines) < 3

TooShort(lines) == Len(lines) < 4

\* The call's outcome: err, and val, a Commit or NoCommit.
extract_commit_info(commit_data) ==
  LET lines == BlockLines(commit_data)
  IN  IF TooShort(lines) \/ lines[1] = <<>> THEN [err |-> "none", val |-> NoCommit]
      ELSE LET author == AuthorOf(lines)
               metadata_end == SkipBlank(lines, MetadataEnd(lines))
               has_subject == metadata_end < Len(lines)
               subject == IF has_subject THEN Strip(At(lines, metadata_end)) ELSE <<>>
               body_start == IF has_subject THEN metadata_end + 1 ELSE 0
               body_end == FindBodyEnd(lines, body_start)
               body == IF body_start < body_end
                       THEN StripText(Slice(lines, body_start, body_end))
                       ELSE <<>>
               files == extract_file_changes(Slice(lines, body_end, Len(lines)))
           IN  IF files.err # "none" THEN [err |-> files.err, val |-> NoCommit]
               ELSE [err |-> "none",
                     val |-> [none |-> FALSE,
                              hash |-> Strip(lines[1]),
                              author_name |-> author.name,
                              author_email |-> author.email,
                              date |-> DateOf(lines),
                              subject |-> subject,
                              body |-> body,
                              files |-> files.val]]

\* Commit.author
CommitAuthorId(commit) == AuthorId(commit.author_name, commit.author_email)

\* ----------------------------------------------------------- parse_git_log

\* commit_positions: the indices of the boundary lines, in order, and the end.
BoundaryPositions(log_output) ==
  {i \in DOMAIN log_output : IsBoundary(log_output[i])}

\* The lines from one boundary up to the next boundary or the end.
BlockAt(log_output, start) ==
  LET later == {j \in BoundaryPositions(log_output) : j > start}
      end == IF later = {} THEN Len(log_output) + 1
             ELSE CHOOSE j \in later : \A k \in later : j <= k
  IN  SubSeq(log_output, start, end - 1)

\* The loop over the blocks, from line i on: the first exception ends the call.
RECURSIVE ParseBlocks(_, _)
ParseBlocks(log_output, i) ==
  IF i > Len(log_output) THEN [err |-> "none", val |-> <<>>]
  ELSE IF ~IsBoundary(log_output[i]) THEN ParseBlocks(log_output, i + 1)
       ELSE LET commit == extract_commit_info(StripText(BlockAt(log_output, i)))
                rest == ParseBlocks(log_output, i + 1)
            IN  IF commit.err # "none" THEN [err |-> commit.err, val |-> <<>>]
                ELSE IF rest.err # "none" THEN rest
                     ELSE IF commit.val.none THEN rest
                          ELSE [err |-> "none", val |-> <<commit.val>> \o rest.val]

\* if not log_output.strip()
IsBlankText(log_output) == \A i \in DOMAIN log_output : IsBlank(log_output[i])

\* The call's outcome: err, and val, the list of commits returned.
parse_git_log(log_output) ==
  IF IsBlankText(log_output) THEN [err |-> "none", val |-> <<>>]
  ELSE ParseBlocks(log_output, 1)

\* ------------------------------------------- grouping and aggregate stats

\* None, for a date that was not set.
NoDate == [none |-> TRUE]
IsNone(x) == "none" \in DOMAIN x

\* a < b on datetimes: both naive, or both aware (compared in UTC).
DateLT(a, b) == (a.t - a.off) < (b.t - b.off)

\* sum(file.get(k, 0) for file in files)
RECURSIVE SumOver(_, _)
SumOver(files, k) ==
  IF files = <<>> THEN 0 ELSE GetInt(files[1], k) + SumOver(Tail(files), k)

\* Commit.total_lines_added and Commit.total_lines_deleted
total_lines_added(commit) == SumOver(commit.files, "lines_added")
total_lines_deleted(commit) == SumOver(commit.files, "lines_deleted")

\* result[key].append(commit), the list created when the key is new.
AppendUnder(result, key, commit) ==
  IF key \in DOMAIN result.m
  THEN [keys |-> result.keys,
        m |-> SetKey(result.m, key, Append(result.m[key], commit))]
  ELSE [keys |-> Append(result.keys, key),
        m |-> SetKey(result.m, key, <<commit>>)]

\* A variant of GroupKey that takes the name alone for the key.
GroupKey_NameOnly(commit) == commit.author_name

\* author = commit.author
GroupKey(commit) == CommitAuthorId(commit)

RECURSIVE GroupByAuthor(_, _)
GroupByAuthor(commits, result) ==
  IF commits = <<>> THEN result
  ELSE GroupByAuthor(Tail(commits), AppendUnder(result, GroupKey(commits[1]), commits[1]))

group_commits_by_author(commits) == GroupByAuthor(commits, EmptyDict)

\* The inner loop over commit.files.
RECURSIVE GroupFiles(_, _, _)
GroupFiles(commit, files, result) ==
  IF files = <<>> THEN result
  ELSE GroupFiles(commit, Tail(files), AppendUnder(result, files[1].path, commit))

RECURSIVE GroupByFile(_, _)
GroupByFile(commits, result) ==
  IF commits = <<>> THEN result
  ELSE GroupByFile(Tail(commits), GroupFiles(commits[1], commits[1].files, result))

group_commits_by_file(commits) == GroupByFile(commits, EmptyDict)

\* The two updates of first_commit_date and last_commit_date by one date;
\* a comparison of a naive with an aware datetime raises TypeError.
TrackDates(acc, date) ==
  IF ~IsNone(acc.first) /\ DateDiffRaises(date, acc.first)
  THEN [acc EXCEPT !.err = "TypeError"]
  ELSE [acc EXCEPT
          !.first = IF IsNone(acc.first) \/ DateLT(date, acc.first) THEN date ELSE acc.first,
          !.last = IF IsNone(acc.last) \/ DateLT(acc.last, date) THEN date ELSE acc.last]

\* The counters before the loops.
NoStats ==
  [err |-> "none", names |-> {}, total_commits |-> 0,
   total_lines_added |-> 0, total_lines_deleted |-> 0,
   first |-> NoDate, last |-> NoDate]

\* A variant of FileLines that adds the lines of the whole commit.
FileLines_WholeCommit(commit, file, k) == SumOver(commit.files, k)

\* file.get("lines_added", 0), file.get("lines_deleted", 0)
FileLines(commit, file, k) == GetInt(file, k)

\* calculate_file_stats: the body of "if file['path'] == file_path".
FileStatsStep(acc, commit, file) ==
  TrackDates(
    [acc EXCEPT
       !.names = acc.names \cup {CommitAuthorId(commit)},
       !.total_commits = acc.total_commits + 1,
       !.total_lines_added = acc.total_lines_added + FileLines(commit, file, "lines_added"),
       !.total_lines_deleted = acc.total_lines_deleted + FileLines(commit, file, "lines_deleted")],
    commit.date)

\* The loop over commit.files; an exception ends it.
RECURSIVE FileStatsFiles(_, _, _, _)
FileStatsFiles(acc, commit, files, file_path) ==
  IF files = <<>> \/ acc.err # "none" THEN acc
  ELSE FileStatsFiles(
         IF files[1].path = file_path THEN FileStatsStep(acc, commit, files[1]) ELSE acc,
         commit, Tail(files), file_path)

RECURSIVE FileStatsLoop(_, _, _)
FileStatsLoop(acc, commits, file_path) ==
  IF commits = <<>> \/ acc.err # "none" THEN acc
  ELSE FileStatsLoop(FileStatsFiles(acc, commits[1], commits[1].files, file_path),
                     Tail(commits), file_path)

\* The call's outcome; authors is list(set), here the set.
calculate_file_stats(commits, file_path) ==
  LET acc == FileStatsLoop(NoStats, commits, file_path)
  IN  IF acc.err # "none" THEN [err |-> acc.err, val |-> <<>>]
      ELSE [err |-> "none",
            val |-> [path |-> file_path,
                     authors |-> acc.names,
                     total_commits |-> acc.total_commits,
                     total_lines_added |-> acc.total_lines_added,
                     total_lines_deleted |-> acc.total_lines_deleted,
                     first_commit_date |-> acc.first,
                     last_commit_date |-> acc.last]]

\* files.add(file["path"]) for each file of the commit.
PathsOf(commit) == {commit.files[i].path : i \in DOMAIN commit.files}

\* A variant of Counted that leaves out the commits without files.
Counted_WithFilesOnly(commit) == IF commit.files = <<>> THEN 0 ELSE 1

\* total_commits += 1
Counted(commit) == 1

\* calculate_author_stats: the body of "if commit.author == author".
AuthorStatsStep(acc, commit) ==
  TrackDates(
    [acc EXCEPT
       !.names = acc.names \cup PathsOf(commit),
       !.total_commits = acc.total_commits + Counted(commit),
       !.total_lines_added = acc.total_lines_added + total_lines_added(commit),
       !.total_lines_deleted = acc.total_lines_deleted + total_lines_deleted(commit)],
    commit.date)

RECURSIVE AuthorStatsLoop(_, _, _)
AuthorStatsLoop(acc, commits, author) ==
  IF commits = <<>> \/ acc.err # "none" THEN acc
  ELSE AuthorStatsLoop(
         IF CommitAuthorId(commits[1]) = author THEN AuthorStatsStep(acc, commits[1]) ELSE acc,
         Tail(commits), author)

\* The call's outcome; files is list(set), here the set.
calculate_author_stats(commits, author) ==
  LET acc == AuthorStatsLoop(NoStats, commits, author)
  IN  IF acc.err # "none" THEN [err |-> acc.err, val |-> <<>>]
      ELSE [err |-> "none",
            val |-> [author |-> author,
                     files |-> acc.names,
                     total_commits |-> acc.total_commits,
                     total_lines_added |-> acc.total_lines_added,
                     total_lines_deleted |-> acc.total_lines_deleted,
                     first_commit_date |-> acc.first,
                     last_commit_date |-> acc.last]]

\* ===================================================== commands/dris.py

\* get_file_experts, one turn of the loop over the commits: the entry of the
\* author is created with the commit's date, the counters grow, and the two
\* dates are compared with the commit's.
FoldStep(author_stats, commit) ==
  LET author == CommitAuthorId(commit)
      seen == author \in DOMAIN author_stats.m
      before == IF seen THEN author_stats.m[author]
                ELSE [total_commits |-> 0, total_lines_added |-> 0,
                      total_lines_deleted |-> 0,
                      first_commit_date |-> commit.date,
                      last_commit_date |-> commit.date]
      raises == DateDiffRaises(commit.date, before.first_commit_date)
      after ==
        [total_commits |-> before.total_commits + 1,
         total_lines_added |-> before.total_lines_added + total_lines_added(commit),
         total_lines_deleted |-> before.total_lines_deleted + total_lines_deleted(commit),
         first_commit_date |-> IF DateLT(commit.date, before.first_commit_date)
                               THEN commit.date ELSE before.first_commit_date,
         last_commit_date |-> IF DateLT(before.last_commit_date, commit.date)
                              THEN commit.date ELSE before.last_commit_date]
  IN  IF raises THEN [err |-> "TypeError", val |-> author_stats]
      ELSE [err |-> "none",
            val |-> [keys |-> IF seen THEN author_stats.keys
                              ELSE Append(author_stats.keys, author),
                     m |-> SetKey(author_stats.m, author, after)]]

\* The loop over the commits; an exception ends it.
RECURSIVE FoldAuthorStats(_, _)
FoldAuthorStats(commits, author_stats) ==
  IF commits = <<>> THEN [err |-> "none", val |-> author_stats]
  ELSE LET step == FoldStep(author_stats, commits[1])
       IN  IF step.err # "none" THEN step
           ELSE FoldAuthorStats(Tail(commits), step.val)


\* author_stats of get_file_experts, ranked: the body of the try block
\* from the parsed commits on.
ExpertsOf(commits, recency_period) ==
  LET author_stats == FoldAuthorStats(commits, EmptyDict)
      ranking == rank_contributors(author_stats.val, NoWeights, recency_period)
  IN  IF author_stats.err # "none" THEN [err |-> author_stats.err, val |-> <<>>]
      ELSE [err |-> ranking.err, val |-> ranking.val]

\* ==================================================== commands/stats.py

\* author_stats of execute: calculate_author_stats for each key of
\* group_commits_by_author, from the i-th key on; an exception ends the loop.
RECURSIVE StatsPerAuthor(_, _, _, _)
StatsPerAuthor(commits, keys, i, author_stats) ==
  IF i > Len(keys) THEN [err |-> "none", val |-> author_stats]
  ELSE LET one == calculate_author_stats(commits, keys[i])
       IN  IF one.err # "none" THEN [err |-> one.err, val |-> author_stats]
           ELSE StatsPerAuthor(commits, keys, i + 1,
                  [keys |-> Append(author_stats.keys, keys[i]),
                   m |-> SetKey(author_stats.m, keys[i], one.val)])

\* execute from the parsed commits to the ranking (without a language).
StatsRanking(commits, recency_period) ==
  LET author_commits == group_commits_by_author(commits)
      author_stats == StatsPerAuthor(commits, author_commits.keys, 1, EmptyDict)
      ranking == rank_contributors(author_stats.val, NoWeights, recency_period)
  IN  IF author_stats.err # "none" THEN [err |-> author_stats.err, val |-> <<>>]
      ELSE [err |-> ranking.err, val |-> ranking.val]

\* ====================================================== git/repository.py
\* A repository path r as the file system and git present it: kind, what is
\* at the path; log_fails, whether git log fails there; tree, the files below
\* it, each with the text git log writes for it.

\* os.path.isdir(repo_path)
IsDir(r) == r.kind # "missing"

\* git rev-parse --is-inside-work-tree: "true" below a work tree, and a failed
\* command in a directory that belongs to no repository.
RevParse(r) ==
  IF r.kind = "work_tree" THEN [err |-> "none", val |-> "true"]
  ELSE [err |-> "CalledProcessError", val |-> ""]

\* The value returned, and the git commands run on the way.
validate_repo(r) ==
  IF ~IsDir(r) THEN [val |-> FALSE, ran |-> <<>>]
  ELSE IF r.kind = "git_dir" THEN [val |-> TRUE, ran |-> <<>>]
  ELSE IF r.kind = "git_file" THEN [val |-> TRUE, ran |-> <<>>]
  ELSE LET result == RevParse(r)
       IN  [val |-> result.err = "none" /\ result.val = "true",
            ran |-> <<"rev-parse">>]

\* git log ... -- path: the text for the path, none for a path without commits.
GitLog(r, path) ==
  IF r.log_fails THEN [err |-> "CalledProcessError", val |-> <<>>]
  ELSE [err |-> "none", val |-> IF path \in DOMAIN r.tree THEN r.tree[path] ELSE <<>>]

\* get_commit_history(repo_path, path) with a path relative to the
\* repository: err, the text returned, and the git commands run.
get_commit_history(r, path) ==
  LET valid == validate_repo(r)
      output == GitLog(r, path)
  IN  IF ~valid.val
      THEN [err |-> "ValueError", val |-> <<>>, ran |-> valid.ran]
      ELSE [err |-> output.err, val |-> output.val, ran |-> Append(valid.ran, "log")]

\* os.path.exists(os.path.join(repo_path, file_path))
Exists(r, file_path) == file_path \in DOMAIN r.tree

\* get_file_history(repo_path, file_path) with a relative file_path.
get_file_history(r, file_path) ==
  LET valid == validate_repo(r)
      history == get_commit_history(r, file_path)
  IN  IF ~valid.val
      THEN [err |-> "ValueError", val |-> <<>>, ran |-> valid.ran]
      ELSE IF ~Exists(r, file_path)
           THEN [err |-> "ValueError", val |-> <<>>, ran |-> valid.ran]
           ELSE [err |-> history.err, val |-> history.val,
                 ran |-> valid.ran \o history.ran]

\* ============================================= commands/dris.py, execute

\* The end of the try block: the ranking returned, or [] after an exception
\* of rank_contributors or of the fold.
ExpertsRanked(ranking, ran) ==
  IF ranking.err # "none"
  THEN [val |-> <<>>, ran |-> ran, caught |-> ranking.err]
  ELSE [val |-> ranking.val, ran |-> ran, caught |-> "none"]

\* The try block from the parsed log on.
ExpertsParsed(parsed_log, ran, recency_period) ==
  IF parsed_log.err # "none"
  THEN [val |-> <<>>, ran |-> ran, caught |-> parsed_log.err]
  ELSE ExpertsRanked(ExpertsOf(parsed_log.val, recency_period), ran)

\* The try block from the log text on.
ExpertsRetrieved(git_log, recency_period) ==
  IF git_log.err # "none"
  THEN [val |-> <<>>, ran |-> git_log.ran, caught |-> git_log.err]
  ELSE ExpertsParsed(parse_git_log(git_log.val), git_log.ran, recency_period)

\* get_file_experts(repo_path, file_path, recency_period): the list returned,
\* the git commands run, and the exception that "except Exception" caught.
get_file_experts(r, file_path, recency_period) ==
  ExpertsRetrieved(get_file_history(r, file_path), recency_period)

\* s[:n]
Take(s, n) == SubSeq(s, 1, IF n < Len(s) THEN n ELSE Len(s))

\* d[k] = v on a dict that keeps the order of insertion.
PutKey(d, k, v) ==
  [keys |-> IF k \in DOMAIN d.m THEN d.keys ELSE Append(d.keys, k),
   m |-> SetKey(d.m, k, v)]

\* The loop "for author, score, _ in experts", from the j-th expert on.
RECURSIVE AddScores(_, _, _)
AddScores(overall_scores, experts, j) ==
  IF j > Len(experts) THEN overall_scores
  ELSE LET author == experts[j].author
           score == experts[j].score
       IN  AddScores(PutKey(overall_scores, author,
                            IF author \in DOMAIN overall_scores.m
                            THEN RatAdd(overall_scores.m[author], score)
                            ELSE score),
                     experts, j + 1)

\* valid_files: the files that exist, in the order given.
ValidFiles(r, files) == SelectSeq(files, LAMBDA file_path : Exists(r, file_path))

\* The loop over valid_files, from the i-th file on.
\* The body of the loop for one file and its experts.
ExpertsStep(acc, file_path, experts, top) ==
  [file_experts |-> PutKey(acc.file_experts, file_path, Take(experts.val, top)),
   overall_scores |-> AddScores(acc.overall_scores, experts.val, 1),
   ran |-> acc.ran \o experts.ran,
   caught |-> IF experts.caught = "none" THEN acc.caught
              ELSE Append(acc.caught, file_path)]

RECURSIVE ExpertsLoop(_, _, _, _, _, _)
ExpertsLoop(r, valid_files, i, acc, top, recency_period) ==
  IF i > Len(valid_files) THEN acc
  ELSE ExpertsLoop(r, valid_files, i + 1,
                   ExpertsStep(acc, valid_files[i],
                               get_file_experts(r, valid_files[i], recency_period),
                               top),
                   top, recency_period)

\* overall_experts: the scores over the number of files, sorted, cut at top.
OverallExperts(overall_scores, n, top) ==
  IF overall_scores.keys = <<>> THEN <<>>
  ELSE Take(SortRanking([i \in DOMAIN overall_scores.keys |->
                           [author |-> overall_scores.keys[i],
                            score |-> RatMul(overall_scores.m[overall_scores.keys[i]],
                                             Rat(1, n))]],
                        <<>>),
            top)

NoExperts ==
  [file_experts |-> EmptyDict, overall_scores |-> EmptyDict,
   ran |-> <<>>, caught |-> <<>>]

\* What execute shows after the loop, with exit code 0.
ExpertsShown(looped, ran, n, top) ==
  [code |-> 0,
   file_experts |-> looped.file_experts,
   overall_experts |-> OverallExperts(looped.overall_scores, n, top),
   ran |-> ran \o looped.ran,
   caught |-> looped.caught]

\* execute after the validation of the repository.
ExpertsOfFiles(r, valid, valid_files, top, recency_period) ==
  IF ~valid.val \/ valid_files = <<>>
  THEN [code |-> 1, file_experts |-> EmptyDict, overall_experts |-> <<>>,
        ran |-> valid.ran, caught |-> <<>>]
  ELSE ExpertsShown(ExpertsLoop(r, valid_files, 1, NoExperts, top, recency_period),
                    valid.ran, Len(valid_files), top)

\* execute(repo_path, recency_period, output_format, files, top) with files
\* given: the exit code, what is shown (the experts of each file and the
\* overall experts), the git commands run, and the files whose exception
\* get_file_experts caught.
dris_execute(r, recency_period, files, top) ==
  ExpertsOfFiles(r, validate_repo(r), ValidFiles(r, files), top, recency_period)

\* ============================================ commands/stats.py, execute

\* The end of execute: the ranking shown, or the exception that leaves it.
StatsShown(ranking, ran) ==
  IF ranking.err # "none"
  THEN [err |-> ranking.err, code |-> 1, ranking |-> <<>>, ran |-> ran]
  ELSE [err |-> "none", code |-> 0, ranking |-> ranking.val, ran |-> ran]

\* execute from the parsed log on.
StatsParsed(parsed_log, ran, recency_period) ==
  IF parsed_log.err # "none"
  THEN [err |-> parsed_log.err, code |-> 1, ranking |-> <<>>, ran |-> ran]
  ELSE StatsShown(StatsRanking(parsed_log.val, recency_period), ran)

\* execute from the log text on: a failed retrieval ends it with exit code 1.
StatsRetrieved(log_output, ran, recency_period) ==
  IF log_output.err # "none"
  THEN [err |-> "none", code |-> 1, ranking |-> <<>>, ran |-> ran \o log_output.ran]
  ELSE StatsParsed(parse_git_log(log_output.val), ran \o log_output.ran,
                   recency_period)

\* execute after the validation of the repository.
StatsValidated(r, valid, path, recency_period) ==
  IF ~valid.val
  THEN [err |-> "none", code |-> 1, ranking |-> <<>>, ran |-> valid.ran]
  ELSE StatsRetrieved(get_commit_history(r, path), valid.ran, recency_period)

\* execute(repo_path, path, recency_period) without a language: the exception
\* that leaves it, the exit code, the ranking shown, and the git commands run.
stats_execute(r, path, recency_period) ==
  StatsValidated(r, validate_repo(r), path, recency_period)

\* ------------------------------------------------------------------ state

VARIABLES
  commits,      \* the commit list handed to calculate_recency_score
  recency,      \* the last call of calculate_recency_score and its result
  stats,        \* the caller's stats mapping (rank_contributors writes to it)
  call,         \* the last call of a scoring function and its outcome
  log_output,   \* the log text handed to parse_git_log, as its lines
  parsed,       \* the last call of parse_git_log and its outcome
  block,        \* one commit block as written: its header and further lines
  extracted,    \* the last call of extract_commit_info and its outcome
  file_lines,   \* the lines handed to extract_file_changes
  changes,      \* the last call of extract_file_changes and its outcome
  history,      \* the list of Commit objects handed to the grouping functions
  grouped,      \* the last call on that list and its outcome
  original,     \* the stats mapping as its caller built it, before any ranking
  default_weights, \* the module's DEFAULT_WEIGHTS dict
  caller_weights,  \* the weights argument of the last ranking, as the call left it
  calls,        \* the ranking calls made on the mapping so far, oldest first
  repo,         \* the repository path as the file system and git present it
  run           \* the last call of a retrieval function or a workflow on it

\* The variables of the grouping functions and of the commands.
repeated == <<original, default_weights, caller_weights, calls>>

retrieval == <<repo, run>>

later == <<history, grouped, repeated, retrieval>>

vars == <<commits, recency, stats, call, log_output, parsed,
          block, extracted, file_lines, changes, later>>

NoCall == [fn |-> "none"]

\* A path at which there is no directory.
NoRepo == [kind |-> "missing", log_fails |-> FALSE, tree |-> <<>>]

Init ==
  /\ commits = <<>>
  /\ recency = NoCall
  /\ stats = EmptyDict
  /\ call = NoCall
  /\ log_output = <<>>
  /\ parsed = NoCall
  /\ block = [head |-> <<>>, more |-> <<>>]
  /\ extracted = NoCall
  /\ file_lines = <<>>
  /\ changes = NoCall
  /\ history = <<>>
  /\ grouped = NoCall
  /\ original = EmptyDict
  /\ default_weights = DEFAULT_WEIGHTS
  /\ caller_weights = NoWeights
  /\ calls = <<>>
  /\ repo = NoRepo
  /\ run = NoCall

\* --------------------------------- the callers of calculate_recency_score

\* The recency periods tried: one month (the special case) and the default.
Windows == {1, MaxWindow}

\* Dates around the two cutoffs of a reference date of day 100: 29 and 30
\* days before it (one month), 90 and 91 days before it (three months), and
\* two readings with a UTC offset.
SampleDates ==
  {Naive(Days(100)), Naive(Days(71)), Naive(Days(70)),
   Naive(Days(10)), Naive(Days(9)),
   Aware(Days(71), 1), Aware(Days(100), -1)}

SampleCommitDicts == [author : Authors, date : SampleDates]

\* The caller appends one more commit to the list.
AddCommit(c) ==
  /\ recency = NoCall
  /\ Len(commits) < MaxCommits
  /\ commits' = Append(commits, c)
  /\ UNCHANGED <<recency, stats, call, log_output, parsed, block, extracted, file_lines, changes, later>>

\* calculate_recency_score(commits, recency_period_months)
CallRecency(months) ==
  /\ recency = NoCall
  /\ recency' = [fn |-> "calculate_recency_score", months |-> months,
                 val |-> calculate_recency_score(commits, months)]
  /\ UNCHANGED <<commits, stats, call, log_output, parsed, block, extracted, file_lines, changes, later>>

NextRecency ==
  \/ \E c \in SampleCommitDicts : AddCommit(c)
  \/ \E months \in Windows : CallRecency(months)

SpecRecency == Init /\ [][NextRecency]_vars


\* ----------------------------------------- the callers of the other three

\* The first and last commit dates tried: none, one day, and two long spans,
\* one of them ending 30 days before the other.
SampleSpans ==
  {<<>>,
   [first_commit_date |-> Naive(Days(100)), last_commit_date |-> Naive(Days(100))],
   [first_commit_date |-> Naive(Days(0)), last_commit_date |-> Naive(Days(70))],
   [first_commit_date |-> Naive(Days(0)), last_commit_date |-> Naive(Days(100))]}

\* The counters tried: no commit, a commit without lines, and commits with lines.
SampleCounters ==
  {[total_commits |-> 0, total_lines_added |-> 0, total_lines_deleted |-> 0],
   [total_commits |-> 1, total_lines_added |-> 0, total_lines_deleted |-> 0],
   [total_commits |-> 2, total_lines_added |-> 1, total_lines_deleted |-> 1]}

\* d1 and d2 in one dict (their keys are disjoint).
Merge(d1, d2) ==
  [k \in DOMAIN d1 \cup DOMAIN d2 |-> IF k \in DOMAIN d1 THEN d1[k] ELSE d2[k]]

SampleStats == {Merge(c, s) : c \in SampleCounters, s \in SampleSpans}

\* The weights arguments tried: None, the recency-heavy weights of the tests,
\* and a mapping that leaves two metrics out.
SampleWeights ==
  {NoWeights,
   GivenWeights([longevity |-> Rat(5, 100), lines |-> Rat(5, 100),
                 commits |-> Rat(5, 100), recency |-> Rat(85, 100)]),
   GivenWeights([longevity |-> Rat(1, 10), recency |-> Rat(7, 10)])}

InStats(author) == \E i \in DOMAIN stats.keys : stats.keys[i] = author

\* The caller adds one contributor's raw stats to the mapping.
AddContributor(author, m) ==
  /\ call = NoCall
  /\ Len(stats.keys) < MaxAuthors
  /\ ~InStats(author)
  /\ stats' = [keys |-> Append(stats.keys, author), m |-> SetKey(stats.m, author, m)]
  /\ UNCHANGED <<commits, recency, call, log_output, parsed, block, extracted, file_lines, changes, later>>

\* normalize_metrics(stats), on stats as built or as a ranking call left them
\* (with the recency entries it wrote).
CallNormalize ==
  /\ call.fn \in {"none", "rank_contributors"}
  /\ call' = [fn |-> "normalize_metrics", arg |-> stats,
              out |-> normalize_metrics(stats)]
  /\ UNCHANGED <<commits, recency, stats, log_output, parsed, block, extracted, file_lines, changes, later>>

\* calculate_contributor_score(normalize_metrics(stats), weights), on stats as
\* built or as a ranking call left them.
CallScore(weights) ==
  /\ call.fn \in {"none", "rank_contributors"}
  /\ normalize_metrics(stats).err = "none"
  /\ call' = [fn |-> "calculate_contributor_score",
              arg |-> normalize_metrics(stats).val, weights |-> weights,
              out |-> calculate_contributor_score(normalize_metrics(stats).val, weights)]
  /\ UNCHANGED <<commits, recency, stats, log_output, parsed, block, extracted, file_lines, changes, later>>

\* rank_contributors(stats, weights, recency_period_months); samples is the
\* local list of commits the call built.
CallRank(weights, months) ==
  /\ call = NoCall
  /\ LET r == rank_contributors(stats, weights, months)
     IN  /\ call' = [fn |-> "rank_contributors", arg |-> stats, weights |-> weights,
                     months |-> months, samples |-> SynthesizedCommits(stats, 1),
                     out |-> [err |-> r.err, val |-> r.val]]
         /\ stats' = r.stats
  /\ UNCHANGED <<commits, recency, log_output, parsed, block, extracted, file_lines, changes, later>>

NextScore ==
  \/ \E author \in Authors, m \in SampleStats : AddContributor(author, m)
  \/ CallNormalize
  \/ \E weights \in SampleWeights : CallScore(weights)
  \/ \E weights \in SampleWeights, months \in Windows : CallRank(weights, months)

SpecScore == Init /\ [][NextScore]_vars


\* ------------------------------------- the same callers, on sparse mappings

\* Stats with fields left out or at their limits: no field at all, commits
\* only, one date only, no commit over one day, a last commit half a day
\* before the first, and a mapping with every field.
EdgeStats ==
  {<<>>,
   [total_commits |-> 1],
   [total_commits |-> 2, first_commit_date |-> Naive(Days(0))],
   [total_commits |-> 1, total_lines_added |-> 4,
    last_commit_date |-> Naive(Days(100))],
   [total_commits |-> 0, total_lines_added |-> 0, total_lines_deleted |-> 0,
    first_commit_date |-> Naive(Days(100)), last_commit_date |-> Naive(Days(100))],
   [total_commits |-> 2, total_lines_added |-> 1, total_lines_deleted |-> 0,
    first_commit_date |-> Naive(Days(100)),
    last_commit_date |-> Naive(Days(100) - 1)],
   [total_commits |-> 2, total_lines_added |-> 1, total_lines_deleted |-> 1,
    first_commit_date |-> Naive(Days(0)), last_commit_date |-> Naive(Days(100))]}

NextEdge ==
  \/ \E author \in Authors, m \in EdgeStats : AddContributor(author, m)
  \/ CallNormalize
  \/ \E weights \in SampleWeights : CallScore(weights)
  \/ \E weights \in SampleWeights, months \in Windows : CallRank(weights, months)

SpecEdge == Init /\ [][NextEdge]_vars


\* ------------------------------------------------ the callers of the parser

\* The metadata lines tried after a hash line: the format git writes with an
\* ISO date, the same with git's default date format, and an author without
\* an address over a date no format reads.
SampleHeads ==
  {<< <<"Author:">> \o Alice, <<"Date:", "2024-04-09T00:00:00+00:00">> >>,
   << <<"Author:">> \o Bob,
      <<"Date:", "Tue", "Apr", "9", "00:00:00", "2024", "+0000">> >>,
   << <<"Author:", "Carol">>, <<"Date:", "yesterday">> >>}

\* The subject lines tried: a subject, and the blank line of an empty one.
SampleSubjects == {<<"fix">>, <<>>}

\* The further lines tried: a blank line, a line of white space, a line of
\* text, a stat line, a rename, a stat line whose path holds two arrows, the
\* stat line of a binary file, and a hash alone on its line.
SampleLines ==
  {<<>>, <<" ">>, <<"more">>,
   <<"5", "0", "a.py">>,
   <<"1", "1", "old.py", "=>", "new.py">>,
   <<"1", "1", "a", "=>", "b", "=>", "c">>,
   <<"-", "-", "img.png">>,
   <<"3333333333333333333333333333333333333333">>}

\* The hashes of the commits written with their metadata.
HeadHashes ==
  {"1111111111111111111111111111111111111111",
   "2222222222222222222222222222222222222222"}

\* The commits written so far with their metadata, and the further lines.
HeadCount == Cardinality({i \in DOMAIN log_output : StartsWith(log_output[i], "Date:")})
ExtraCount == Len(log_output) - 5 * HeadCount

\* The log grows by the start of a commit as git writes it with the format
\* %H%nAuthor: %an <%ae>%nDate: %ad%n%n%s: the hash, the two metadata lines,
\* a blank line and the subject.
AddBlock(hash, head, subject) ==
  /\ parsed = NoCall
  /\ HeadCount < MaxBlocks
  /\ log_output' = log_output \o << <<hash>>, head[1], head[2], <<>>, subject >>
  /\ UNCHANGED <<commits, recency, stats, call, parsed, block, extracted, file_lines, changes, later>>

\* The log grows by one more line.
AddLine(line) ==
  /\ parsed = NoCall
  /\ ExtraCount < MaxExtraLines
  /\ log_output' = Append(log_output, line)
  /\ UNCHANGED <<commits, recency, stats, call, parsed, block, extracted, file_lines, changes, later>>

\* parse_git_log(log_output)
CallParse ==
  /\ parsed = NoCall
  /\ parsed' = [fn |-> "parse_git_log", out |-> parse_git_log(log_output)]
  /\ UNCHANGED <<commits, recency, stats, call, log_output, block, extracted, file_lines, changes, later>>

NextParse ==
  \/ \E hash \in HeadHashes, head \in SampleHeads, subject \in SampleSubjects :
       AddBlock(hash, head, subject)
  \/ \E line \in SampleLines : AddLine(line)
  \/ CallParse

SpecParse == Init /\ [][NextParse]_vars

\* ---------------------------------- the callers of extract_commit_info

\* The header lines tried after the hash line.
AuthorAlice == <<"Author:">> \o Alice
DateIso == <<"Date:", "2024-04-09T00:00:00+00:00">>

\* The starts of a block tried.  As git writes them, with a blank line before
\* the message: each date format and a date no format reads, an author
\* without an address, and a name without the label.  Then the old layout of
\* name, address and date on a line each, and starts that are cut short or
\* broken up: the hash alone, the hash over blank lines, the header without
\* the blank line, and the header with the blank line inside it.
SampleBlocks ==
  LET hash == <<"1111111111111111111111111111111111111111">>
  IN  {<<hash, AuthorAlice, DateIso, <<>> >>,
       <<hash, AuthorAlice,
         <<"Date:", "Tue", "Apr", "9", "00:00:00", "2024", "+0000">>, <<>> >>,
       <<hash, AuthorAlice, <<"Date:", "2024-03-10", "00:00:00", "+0000">>, <<>> >>,
       <<hash, AuthorAlice, <<"Date:", "yesterday">>, <<>> >>,
       <<hash, <<"Author:", "Carol">>, DateIso, <<>> >>,
       <<hash, <<"Dave">>, DateIso, <<>> >>,
       <<hash, <<"Dave">>, <<"dave@example.com">>,
         <<"2024-04-09T00:00:00+00:00">>, <<>> >>,
       <<hash>>,
       <<hash, <<>>, <<>> >>,
       <<hash, AuthorAlice, DateIso>>,
       <<hash, AuthorAlice, <<>>, DateIso>>}

\* The further lines tried: a blank line, two lines of text, two stat lines,
\* the stat line of a binary file, message lines that start like a header
\* line, and a line of a count and a word.
SampleDataLines ==
  {<<>>, <<"fix">>, <<"more">>,
   <<"5", "0", "a.py">>, <<"1", "1", "b.py">>,
   <<"-", "-", "img.png">>,
   <<"Author:", "x">>, <<"Date:", "later">>,
   <<"5", "files">>}

\* commit_data, the text of the block.
BlockText == block.head \o block.more

\* A block is begun.
StartBlock(head) ==
  /\ block.head = <<>>
  /\ block' = [head |-> head, more |-> <<>>]
  /\ UNCHANGED <<commits, recency, stats, call, log_output, parsed,
                 extracted, file_lines, changes, later>>

\* The block grows by one more line.
AddDataLine(line) ==
  /\ block.head # <<>>
  /\ extracted = NoCall /\ parsed = NoCall
  /\ Len(block.more) < MaxDataLines
  /\ block' = [block EXCEPT !.more = Append(@, line)]
  /\ UNCHANGED <<commits, recency, stats, call, log_output, parsed,
                 extracted, file_lines, changes, later>>

\* extract_commit_info(commit_data)
CallExtract ==
  /\ block.head # <<>>
  /\ extracted = NoCall /\ parsed = NoCall
  /\ extracted' = [fn |-> "extract_commit_info",
                   out |-> extract_commit_info(BlockText)]
  /\ UNCHANGED <<commits, recency, stats, call, log_output, parsed,
                 block, file_lines, changes, later>>

\* parse_git_log(log_output) on a log that is this block and nothing else.
CallParseBlock ==
  /\ block.head # <<>>
  /\ extracted = NoCall /\ parsed = NoCall
  /\ log_output' = BlockText
  /\ parsed' = [fn |-> "parse_git_log", out |-> parse_git_log(BlockText)]
  /\ UNCHANGED <<commits, recency, stats, call, block, extracted,
                 file_lines, changes, later>>

NextBlock ==
  \/ \E head \in SampleBlocks : StartBlock(head)
  \/ \E line \in SampleDataLines : AddDataLine(line)
  \/ CallExtract
  \/ CallParseBlock

SpecBlock == Init /\ [][NextBlock]_vars


\* --------------------------------- the callers of extract_file_changes

\* The lines tried: a blank line, a line of text, a line of a count and a
\* word, stat lines with two counts, with two dashes and with one dash on
\* either side, an indented stat line, a rename, the rename of a binary file
\* and a path with two arrows.
SampleFileLines ==
  {<<>>, <<"more">>, <<"5", "files">>,
   <<"5", "0", "a.py">>,
   <<"-", "-", "img.png">>,
   <<"-", "5", "f.bin">>,
   <<"1", "-", "g.bin">>,
   <<" ", "1", "1", "b.py">>,
   <<"1", "1", "old.py", "=>", "new.py">>,
   <<"-", "-", "a.png", "=>", "b.png">>,
   <<"1", "1", "a", "=>", "b", "=>", "c">>}

\* The caller appends one more line to the list.
AddFileLine(line) ==
  /\ changes = NoCall
  /\ Len(file_lines) < MaxFileLines
  /\ file_lines' = Append(file_lines, line)
  /\ UNCHANGED <<commits, recency, stats, call, log_output, parsed,
                 block, extracted, changes, later>>

\* extract_file_changes(file_lines)
CallExtractFiles ==
  /\ changes = NoCall
  /\ changes' = [fn |-> "extract_file_changes",
                 out |-> extract_file_changes(file_lines)]
  /\ UNCHANGED <<commits, recency, stats, call, log_output, parsed,
                 block, extracted, file_lines, later>>

NextFiles ==
  \/ \E line \in SampleFileLines : AddFileLine(line)
  \/ CallExtractFiles

SpecFiles == Init /\ [][NextFiles]_vars


\* ------------------- the callers of the grouping and aggregation functions

\* The earlier variables, which these callers leave alone.
earlier == <<commits, recency, stats, call, log_output, parsed,
             block, extracted, file_lines, changes>>

\* The hash of the i-th commit of the list.
HistoryHashes ==
  << <<"1111111111111111111111111111111111111111">>,
     <<"2222222222222222222222222222222222222222">>,
     <<"3333333333333333333333333333333333333333">>,
     <<"4444444444444444444444444444444444444444">>,
     <<"5555555555555555555555555555555555555555">> >>

\* A file entry without a rename.
Entry(path, added, deleted) ==
  [path |-> <<path>>, lines_added |-> added, lines_deleted |-> deleted,
   is_renamed |-> FALSE, is_binary |-> FALSE]

\* A Commit object as extract_commit_info builds it.
CommitOf(name, email, date, files) ==
  [none |-> FALSE, hash |-> <<>>, author_name |-> name, author_email |-> email,
   date |-> date, subject |-> <<"fix">>, body |-> <<>>, files |-> files]

\* The commits tried: Alice under two addresses, Bob; dates with an offset
\* and the offset-less current time of a date that no format read; no file,
\* one file, two files, and one path on two stat lines.
SampleHistory ==
  {CommitOf(<<"Alice">>, <<"alice@example.com">>, Aware(Days(70), 0),
            <<Entry("a.py", 5, 0)>>),
   CommitOf(<<"Alice">>, <<"alice@example.com">>, Aware(Days(100), 0),
            <<Entry("a.py", 1, 1), Entry("b.py", 5, 0)>>),
   CommitOf(<<"Alice">>, <<"alice@example.com">>, Now, <<>>),
   CommitOf(<<"Alice">>, <<"alice@work.example">>, Aware(Days(100), 0),
            <<Entry("b.py", 1, 1)>>),
   CommitOf(<<"Bob">>, <<"bob@example.com">>, Aware(Days(70), 0), <<>>),
   CommitOf(<<"Bob">>, <<"bob@example.com">>, Aware(Days(100), 0),
            <<Entry("a.py", 1, 0), Entry("a.py", 0, 1)>>),
   CommitOf(<<"Bob">>, <<"bob@example.com">>, Now, <<Entry("b.py", 5, 0)>>)}

\* The paths and the authors asked about: those of the commits, and one
\* path and one author that no commit has.
SamplePaths == {<<"a.py">>, <<"b.py">>, <<"c.py">>}
SampleAuthors ==
  {Alice, Bob, Carol, AuthorId(<<"Alice">>, <<"alice@work.example">>)}

\* The list grows by one commit, under the next hash.
AddToHistory(commit) ==
  /\ grouped = NoCall
  /\ Len(history) < MaxHistory
  /\ history' = Append(history, [commit EXCEPT !.hash = HistoryHashes[Len(history) + 1]])
  /\ UNCHANGED <<earlier, grouped, repeated, retrieval>>

\* group_commits_by_author(commits)
CallGroupByAuthor ==
  /\ grouped = NoCall
  /\ grouped' = [fn |-> "group_commits_by_author",
                 out |-> group_commits_by_author(history)]
  /\ UNCHANGED <<earlier, history, repeated, retrieval>>

\* group_commits_by_file(commits)
CallGroupByFile ==
  /\ grouped = NoCall
  /\ grouped' = [fn |-> "group_commits_by_file",
                 out |-> group_commits_by_file(history)]
  /\ UNCHANGED <<earlier, history, repeated, retrieval>>

\* calculate_file_stats(commits, file_path)
CallFileStats(file_path) ==
  /\ grouped = NoCall
  /\ grouped' = [fn |-> "calculate_file_stats", file_path |-> file_path,
                 out |-> calculate_file_stats(history, file_path)]
  /\ UNCHANGED <<earlier, history, repeated, retrieval>>

\* calculate_author_stats(commits, author), and for the same commits the
\* entry of the author in the author_stats that get_file_experts folds.
CallAuthorStats(author) ==
  /\ grouped = NoCall
  /\ grouped' = [fn |-> "calculate_author_stats", author |-> author,
                 out |-> calculate_author_stats(history, author),
                 folded |-> FoldAuthorStats(history, EmptyDict)]
  /\ UNCHANGED <<earlier, history, repeated, retrieval>>

\* The stats command from the parsed commits on: the exception it lets out,
\* or its ranking.
CallStatsRanking(months) ==
  /\ grouped = NoCall
  /\ grouped' = [fn |-> "stats", months |-> months,
                 out |-> StatsRanking(history, months)]
  /\ UNCHANGED <<earlier, history, repeated, retrieval>>

\* get_file_experts from the parsed commits on: the exception raised in the
\* try block, or its ranking.
CallExpertsOf(months) ==
  /\ grouped = NoCall
  /\ grouped' = [fn |-> "get_file_experts", months |-> months,
                 out |-> ExpertsOf(history, months)]
  /\ UNCHANGED <<earlier, history, repeated, retrieval>>

NextGroup ==
  \/ \E commit \in SampleHistory : AddToHistory(commit)
  \/ CallGroupByAuthor
  \/ CallGroupByFile
  \/ \E file_path \in SamplePaths : CallFileStats(file_path)
  \/ \E author \in SampleAuthors : CallAuthorStats(author)
  \/ \E months \in Windows : CallStatsRanking(months)
  \/ \E months \in Windows : CallExpertsOf(months)

SpecGroup == Init /\ [][NextGroup]_vars


\* ------------------------------------ rank_contributors, called repeatedly

\* The stats tried: those of SampleStats, one that comes with a recency entry
\* of its own, and one on which normalize_metrics raises.
RepeatStats ==
  SampleStats \cup
  {[total_commits |-> 1, total_lines_added |-> 4, total_lines_deleted |-> 0,
    first_commit_date |-> Naive(Days(100)), last_commit_date |-> Naive(Days(100)),
    recency |-> Rat(1, 2)],
   [total_commits |-> 2, total_lines_added |-> 1, total_lines_deleted |-> 0,
    first_commit_date |-> Naive(Days(100)),
    last_commit_date |-> Naive(Days(100) - 1)]}

\* The caller adds one contributor's raw stats to the mapping, before any call.
BuildStats(author, m) ==
  /\ calls = <<>>
  /\ Len(stats.keys) < MaxAuthors
  /\ ~InStats(author)
  /\ stats' = [keys |-> Append(stats.keys, author), m |-> SetKey(stats.m, author, m)]
  /\ original' = stats'
  /\ UNCHANGED <<commits, recency, call, log_output, parsed, block, extracted,
                 file_lines, changes, history, grouped,
                 default_weights, caller_weights, calls, retrieval>>

\* rank_contributors(stats, weights, recency_period_months) on the mapping as
\* the calls before left it. Without weights the call ranks with a copy of
\* DEFAULT_WEIGHTS as it is now; no statement of rank_contributors or of
\* calculate_contributor_score assigns to DEFAULT_WEIGHTS or to an entry of
\* the weights mapping, so both are as before.
RankAgain(weights, months) ==
  /\ Len(calls) < MaxCalls
  /\ LET used == IF weights.none THEN GivenWeights(default_weights) ELSE weights
         r == rank_contributors(stats, used, months)
     IN  /\ call' = [fn |-> "rank_contributors", arg |-> stats, weights |-> weights,
                     months |-> months, samples |-> SynthesizedCommits(stats, 1),
                     out |-> [err |-> r.err, val |-> r.val]]
         /\ stats' = r.stats
  /\ calls' = Append(calls, [weights |-> weights, months |-> months])
  /\ caller_weights' = weights
  /\ UNCHANGED <<commits, recency, log_output, parsed, block, extracted,
                 file_lines, changes, history, grouped, original, default_weights,
                 retrieval>>

NextRepeat ==
  \/ \E author \in Authors, m \in RepeatStats : BuildStats(author, m)
  \/ \E weights \in SampleWeights, months \in Windows : RankAgain(weights, months)

SpecRepeat == Init /\ [][NextRepeat]_vars


\* ------------------------------- the callers of retrieval and the workflows

\* What can be at the path: a directory with a .git directory, one with a
\* .git file, one below a work tree, and one that belongs to no repository.
RepoKinds == {"git_dir", "git_file", "work_tree", "plain_dir"}

\* One commit as git log writes it with --numstat and the format
\* %H%nAuthor: %an <%ae>%nDate: %ad%n%n%s%n%b%n.
LogBlock(hash, author, date, stat) ==
  << <<hash>>, <<"Author:">> \o author, <<"Date:", date>>, <<>>, <<"fix">>, <<>>,
     stat, <<>> >>

\* The files that can be below the path.
TrackedPaths == {<<"a.py">>, <<"b.py">>}

\* The log texts of a file: one commit of Alice, one commit of Bob, and a
\* commit of Alice after a larger one of Bob.
SampleLogs ==
  {LogBlock("1111111111111111111111111111111111111111", Alice,
            "2024-04-09T00:00:00+00:00", <<"5", "0", "f.py">>),
   LogBlock("2222222222222222222222222222222222222222", Bob,
            "2024-04-09T00:00:00+00:00", <<"5", "0", "f.py">>),
   LogBlock("1111111111111111111111111111111111111111", Alice,
            "2024-04-09T00:00:00+00:00", <<"1", "1", "f.py">>)
     \o LogBlock("2222222222222222222222222222222222222222", Bob,
                 "2024-03-10T00:00:00+00:00", <<"5", "0", "f.py">>)}

\* The lists of files handed to dris: up to MaxListed of the paths, each once.
FileLists ==
  {files \in UNION {[1 .. n -> TrackedPaths] : n \in 1 .. MaxListed} :
     \A i, j \in DOMAIN files : files[i] = files[j] => i = j}

\* The numbers of experts asked for.
Tops == 1 .. MaxTop

others == <<commits, recency, stats, call, log_output, parsed, block, extracted,
            file_lines, changes, history, grouped, repeated>>

\* A directory appears at the path.
MakeRepo(kind) ==
  /\ run = NoCall
  /\ repo.kind = "missing"
  /\ repo' = [repo EXCEPT !.kind = kind]
  /\ UNCHANGED <<others, run>>

\* A file appears below the path, with the log git has for it.
AddFile(file_path, log) ==
  /\ run = NoCall
  /\ IsDir(repo)
  /\ file_path \notin DOMAIN repo.tree
  /\ Cardinality(DOMAIN repo.tree) < MaxTracked
  /\ repo' = [repo EXCEPT !.tree = SetKey(repo.tree, file_path, log)]
  /\ UNCHANGED <<others, run>>

\* git log starts to fail at the path (a damaged or empty .git, a branch
\* without commits).
BreakLog ==
  /\ run = NoCall
  /\ IsDir(repo)
  /\ ~repo.log_fails
  /\ repo' = [repo EXCEPT !.log_fails = TRUE]
  /\ UNCHANGED <<others, run>>

\* get_commit_history(repo_path, path=path)
CallCommitHistory(path) ==
  /\ run = NoCall
  /\ run' = [fn |-> "get_commit_history", path |-> path,
             out |-> get_commit_history(repo, path)]
  /\ UNCHANGED <<others, repo>>

\* get_file_experts(repo_path, file_path, recency_period)
CallFileExperts(file_path, months) ==
  /\ run = NoCall
  /\ run' = [fn |-> "get_file_experts", file_path |-> file_path, months |-> months,
             out |-> get_file_experts(repo, file_path, months)]
  /\ UNCHANGED <<others, repo>>

\* dris: execute(repo_path, recency_period, output_format, files, top)
CallDris(files, top, months) ==
  /\ run = NoCall
  /\ run' = [fn |-> "dris", files |-> files, top |-> top, months |-> months,
             out |-> dris_execute(repo, months, files, top)]
  /\ UNCHANGED <<others, repo>>

\* stats: execute(repo_path, path=path, recency_period=recency_period)
CallStats(path, months) ==
  /\ run = NoCall
  /\ run' = [fn |-> "stats", path |-> path, months |-> months,
             out |-> stats_execute(repo, path, months)]
  /\ UNCHANGED <<others, repo>>

NextRetrieve ==
  \/ \E kind \in RepoKinds : MakeRepo(kind)
  \/ \E file_path \in TrackedPaths, log \in SampleLogs : AddFile(file_path, log)
  \/ BreakLog
  \/ \E path \in TrackedPaths : CallCommitHistory(path)
  \/ \E file_path \in TrackedPaths, months \in Windows : CallFileExperts(file_path, months)
  \/ \E files \in FileLists, top \in Tops, months \in Windows : CallDris(files, top, months)
  \/ \E path \in TrackedPaths, months \in Windows : CallStats(path, months)

SpecRetrieve == Init /\ [][NextRetrieve]_vars



\* ------------------------------------- every stage called on next to nothing

\* The lines of a text that is blank, and one that is not.
NearBlankLines == {<<>>, <<" ">>, <<"more">>}

\* Each function called on the inputs as they are built: the scoring
\* functions on the empty list and the empty mapping, the parser on texts
\* that are empty, blank or nearly so.
NextEmpty ==
  \/ \E line \in NearBlankLines : AddLine(line)
  \/ CallParse
  \/ \E months \in Windows : CallRecency(months)
  \/ CallNormalize
  \/ \E weights \in SampleWeights : CallScore(weights)
  \/ \E weights \in SampleWeights, months \in Windows : CallRank(weights, months)

SpecEmpty == Init /\ [][NextEmpty]_vars


\* ============================================================== the claims

\* The indices of the commits of one author.
CommitsOf(author) == {i \in DOMAIN commits : commits[i].author = author}

\* The latest wall-clock reading among the commits, offsets dropped.
LatestReading ==
  CHOOSE t \in {commits[i].date.t : i \in DOMAIN commits} :
    \A i \in DOMAIN commits : commits[i].date.t <= t

\* The cutoff the specification gives: 30 days a month before the reference,
\* and 29 days before it for a period of one month.
SpecCutoff(months) ==
  LatestReading - Days(IF months = 1 THEN 29 ELSE 30 * months)

\* The commits of an author that are not older than the cutoff.
RecentOf(author, months) ==
  {i \in CommitsOf(author) : commits[i].date.t >= SpecCutoff(months)}

RecencyCalled == recency.fn = "calculate_recency_score"

\* C4: calculate_recency_score returns, for every author of a commit, exactly
\* (that author's commits not older than the cutoff) / (that author's
\* commits), a value in [0, 1], and nothing for an author without commits.
\* The code breaks it: with a period of one month it answers 1/3 for
\* "Alice <alice@example.com>" and 1/2 for "Bob <bob@example.com>" whatever
\* their commits are.
C4_RecencyIsRecentFraction ==
  RecencyCalled =>
    /\ DOMAIN recency.val = {commits[i].author : i \in DOMAIN commits}
    /\ \A author \in DOMAIN recency.val :
         /\ recency.val[author] =
              Rat(Cardinality(RecentOf(author, recency.months)),
                  Cardinality(CommitsOf(author)))
         /\ RatLE(Zero, recency.val[author])
         /\ RatLE(recency.val[author], One)

NormalizeCalled == call.fn = "normalize_metrics" /\ call.arg.keys # <<>>

KeysOf(d) == {d.keys[i] : i \in DOMAIN d.keys}

\* The raw quantity behind each normalized metric of one contributor: the
\* days from the first to the last commit plus one (0 without both dates),
\* the lines added plus the lines deleted, the commits, the recency.
RawValue(m, metric) ==
  CASE metric = "longevity" ->
         IF {"first_commit_date", "last_commit_date"} \subseteq DOMAIN m
         THEN Rat(((m.last_commit_date.t - m.first_commit_date.t) \div 2) + 1, 1)
         ELSE Zero
    [] metric = "lines" -> Rat(m.total_lines_added + m.total_lines_deleted, 1)
    [] metric = "commits" -> Rat(m.total_commits, 1)
    [] metric = "recency" -> IF "recency" \in DOMAIN m THEN m.recency ELSE Zero

MetricSet == {METRIC_NAMES[i] : i \in DOMAIN METRIC_NAMES}

\* Whether the author holds the maximum raw value of the metric.
HoldsMax(raw, author, metric) ==
  \A other \in KeysOf(raw) :
    RatLE(RawValue(raw.m[other], metric), RawValue(raw.m[author], metric))

InUnitInterval(x) == RatLE(Zero, x) /\ RatLE(x, One)

\* C5 as stated: every normalized value lies in [0, 1] and, for each of the
\* four metrics, the author holding the maximum raw value gets exactly 1.
C5_MaxHolderGetsOne ==
  NormalizeCalled =>
    /\ call.out.err = "none"
    /\ \A author \in KeysOf(call.arg), metric \in MetricSet :
         /\ InUnitInterval(call.out.val.m[author][metric])
         /\ HoldsMax(call.arg, author, metric)
              => call.out.val.m[author][metric] = One

\* C5 amended: every normalized value lies in [0, 1]; for longevity, lines
\* and commits the author holding the maximum raw value gets exactly 1
\* whenever that maximum is positive (and 0 when it is 0); recency is the raw
\* recency unchanged.
C5_NormalizedInUnitInterval ==
  NormalizeCalled =>
    /\ call.out.err = "none"
    /\ KeysOf(call.out.val) = KeysOf(call.arg)
    /\ \A author \in KeysOf(call.arg) :
         /\ \A metric \in MetricSet :
              InUnitInterval(call.out.val.m[author][metric])
         /\ \A metric \in {"longevity", "lines", "commits"} :
              HoldsMax(call.arg, author, metric) =>
                call.out.val.m[author][metric] =
                  IF RatLT(Zero, RawValue(call.arg.m[author], metric))
                  THEN One ELSE Zero
         /\ call.out.val.m[author].recency = RawValue(call.arg.m[author], "recency")

\* normalize_metrics on two contributors: one holds the maximum of longevity,
\* lines and commits and gets 1 for each, the other gets a proper fraction
\* for commits, and the first carries a raw recency of 1/2 that is passed on.
C5_Witness ==
  /\ NormalizeCalled
  /\ \E a, b \in KeysOf(call.arg) :
       /\ a # b
       /\ call.out.val.m[a].longevity = One
       /\ call.out.val.m[a].lines = One
       /\ call.out.val.m[a].commits = One
       /\ call.out.val.m[b].commits = Rat(1, 2)
       /\ RatLT(Zero, call.out.val.m[b].longevity)
       /\ RatLT(call.out.val.m[b].longevity, One)
       /\ call.out.val.m[a].recency = Rat(1, 2)
       /\ HoldsMax(call.arg, a, "recency")


\* --------------------------------------------- rank_contributors (C6, C7)

RankCalled == call.fn = "rank_contributors"

\* The position of an author among the keys of an ordered mapping.
KeyIndex(d, author) == CHOOSE i \in DOMAIN d.keys : d.keys[i] = author

\* C6: the list rank_contributors returns is sorted by score, largest first.
C6_RankingSortedDescending ==
  RankCalled =>
    /\ call.out.err = "none"
    /\ \A i, j \in DOMAIN call.out.val :
         i < j => RatLE(call.out.val[j].score, call.out.val[i].score)

\* A ranking of two contributors who entered in the other order: the second
\* key of the stats has the strictly larger score and comes first.
C6_Witness ==
  /\ RankCalled
  /\ Len(call.out.val) = 2
  /\ RatLT(call.out.val[2].score, call.out.val[1].score)
  /\ call.out.val[1].author = call.arg.keys[2]

\* C7: the authors of the ranking are exactly the keys of the stats, each
\* once, and every entry carries the four normalized metrics and no other.
C7_RankingKeepsAuthors ==
  RankCalled =>
    /\ call.out.err = "none"
    /\ {call.out.val[i].author : i \in DOMAIN call.out.val} = KeysOf(call.arg)
    /\ Len(call.out.val) = Len(call.arg.keys)
    /\ \A i, j \in DOMAIN call.out.val :
         call.out.val[i].author = call.out.val[j].author => i = j
    /\ \A i \in DOMAIN call.out.val :
         DOMAIN call.out.val[i].metrics = MetricSet

\* A ranking of two contributors, one of them without any commit and with a
\* score of 0: both are in the list.
C7_Witness ==
  /\ RankCalled
  /\ Len(call.arg.keys) = 2
  /\ Len(call.out.val) = 2
  /\ \E a \in KeysOf(call.arg) : call.arg.m[a].total_commits = 0
  /\ call.out.val[2].score = Zero
  /\ RatLT(Zero, call.out.val[1].score)

\* ----------------------------------- calculate_contributor_score (C8)

ScoreCalled == call.fn = "calculate_contributor_score"

\* The weight the specification gives a metric: the entry of the mapping, 0
\* for a metric the mapping leaves out, and 0.4, 0.3, 0.2, 0.1 without one.
SpecWeight(weights, metric) ==
  IF weights.none
  THEN CASE metric = "longevity" -> Rat(4, 10)
         [] metric = "lines" -> Rat(3, 10)
         [] metric = "commits" -> Rat(2, 10)
         [] metric = "recency" -> Rat(1, 10)
  ELSE IF metric \in DOMAIN weights.w THEN weights.w[metric] ELSE Zero

SpecTerm(weights, m, metric) == RatMul(SpecWeight(weights, metric), m[metric])

\* C8: the score of every author is the sum over the four metrics of
\* weights[metric] * normalized[author][metric], a metric the weights leave
\* out counting 0, and the default weights being 0.4, 0.3, 0.2 and 0.1.
C8_ScoreIsWeightedSum ==
  ScoreCalled =>
    /\ KeysOf(call.out) = KeysOf(call.arg)
    /\ \A author \in KeysOf(call.arg) :
         call.out.m[author] =
           RatAdd(RatAdd(SpecTerm(call.weights, call.arg.m[author], "longevity"),
                         SpecTerm(call.weights, call.arg.m[author], "lines")),
                  RatAdd(SpecTerm(call.weights, call.arg.m[author], "commits"),
                         SpecTerm(call.weights, call.arg.m[author], "recency")))

\* A call with weights that leave lines and commits out, on an author whose
\* four normalized metrics are all 1: the score is 0.1 + 0.7.
C8_Witness ==
  /\ ScoreCalled
  /\ ~call.weights.none
  /\ DOMAIN call.weights.w = {"longevity", "recency"}
  /\ \E author \in KeysOf(call.arg) :
       /\ call.arg.m[author] =
            [longevity |-> One, lines |-> One, commits |-> One, recency |-> One]
       /\ call.out.m[author] = Rat(8, 10)

\* ------------------------------------------------------- ties (C9)

\* C9: two authors with identical raw stats get identical scores, and two
\* authors with equal scores keep the order they have in the stats mapping.
\* The code breaks the first half: with a period of one month the recency of
\* "Alice <alice@example.com>" is 1/3 and that of "Bob <bob@example.com>"
\* is 1/2, whatever their stats.
C9_TiesStable ==
  RankCalled /\ call.out.err = "none" =>
    \A i, j \in DOMAIN call.out.val :
      LET x == call.out.val[i]
          y == call.out.val[j]
      IN  /\ call.arg.m[x.author] = call.arg.m[y.author] => x.score = y.score
          /\ (i < j /\ x.score = y.score)
               => KeyIndex(call.arg, x.author) < KeyIndex(call.arg, y.author)

\* The second half of C9, which the code keeps: authors with equal scores
\* keep the order of the stats mapping.
C9_EqualScoresKeepOrder ==
  RankCalled /\ call.out.err = "none" =>
    \A i, j \in DOMAIN call.out.val :
      (i < j /\ call.out.val[i].score = call.out.val[j].score)
        => KeyIndex(call.arg, call.out.val[i].author)
             < KeyIndex(call.arg, call.out.val[j].author)


\* ------------------------------------------------- parse_git_log (C1, C2)

ParseCalled == parsed.fn = "parse_git_log"

\* The lines of the text that are a hash and nothing else.
HashLines ==
  {i \in DOMAIN log_output : Len(log_output[i]) = 1 /\ log_output[i][1] \in HashTokens}

\* The k-th of them.
NthHashLine(k) ==
  CHOOSE i \in HashLines : Cardinality({j \in HashLines : j < i}) = k - 1

\* The last line of the block that starts at hash line i.
BlockEnd(i) ==
  IF \E j \in HashLines : j > i
  THEN (CHOOSE j \in HashLines : j > i /\ \A k \in HashLines : k > i => j <= k) - 1
  ELSE Len(log_output)

Visible(line) == line # <<>> /\ line # <<" ">>

TwoArrows(line) == Cardinality({j \in DOMAIN line : line[j] = "=>"}) >= 2

\* A valid block: the hash line, an "Author:" line, a "Date:" line and at
\* least one more line that is not blank, and no path with two arrows.
ValidBlock(i) ==
  /\ i + 3 <= BlockEnd(i)
  /\ log_output[i + 1] # <<>> /\ log_output[i + 1][1] = "Author:"
  /\ log_output[i + 2] # <<>> /\ log_output[i + 2][1] = "Date:"
  /\ \E j \in i + 3 .. BlockEnd(i) : Visible(log_output[j])
  /\ \A j \in i .. BlockEnd(i) : ~TwoArrows(log_output[j])

\* The same but for the arrows: a block fit to be parsed whatever its file
\* stat lines hold.
HasMetadataAndSubject(i) ==
  /\ i + 3 <= BlockEnd(i)
  /\ log_output[i + 1] # <<>> /\ log_output[i + 1][1] = "Author:"
  /\ log_output[i + 2] # <<>> /\ log_output[i + 2][1] = "Date:"
  /\ \E j \in i + 3 .. BlockEnd(i) : Visible(log_output[j])

OnlyValidBlocks ==
  /\ 1 \in HashLines
  /\ \A i \in HashLines : ValidBlock(i)

\* C1: for a log text made only of valid commit blocks (a hash line, an
\* "Author:" line, a "Date:" line and at least one further non-blank line,
\* with no stat path of more than one arrow), parse_git_log returns exactly
\* one Commit per line that is a 40-character hash and nothing else, in the
\* order of those lines, and each Commit's hash is its boundary line.
C1_OneCommitPerHashLine ==
  ParseCalled /\ OnlyValidBlocks =>
    /\ parsed.out.err = "none"
    /\ Len(parsed.out.val) = Cardinality(HashLines)
    /\ \A k \in DOMAIN parsed.out.val :
         parsed.out.val[k].hash = log_output[NthHashLine(k)]

\* A parsed text of two valid blocks with different hashes, the second with
\* file stat lines, and the two Commits in the order of the text.
C1_Witness ==
  /\ ParseCalled
  /\ OnlyValidBlocks
  /\ Cardinality(HashLines) = 2
  /\ Len(parsed.out.val) = 2
  /\ parsed.out.val[1].hash # parsed.out.val[2].hash
  /\ parsed.out.val[1].files = <<>>
  /\ Len(parsed.out.val[2].files) = 2

\* C2: for every input text parse_git_log completes and returns a sequence,
\* and every block with its metadata and a subject still yields its Commit,
\* whatever the stat lines of that block or of another hold.  The code breaks
\* it: a stat path with two arrows makes the unpacking of
\* file_path.split(" => ") raise ValueError, which nothing catches.
C2_ParseNeverAborts ==
  ParseCalled =>
    /\ parsed.out.err = "none"
    /\ \A i \in HashLines :
         HasMetadataAndSubject(i) =>
           \E k \in DOMAIN parsed.out.val : parsed.out.val[k].hash = log_output[i]

\* A block whose stat path has two arrows, in a text with a valid block
\* before it: the call ends with ValueError and returns nothing.
C2_Aborted ==
  /\ ParseCalled
  /\ parsed.out.err = "ValueError"
  /\ Cardinality(HashLines) = 2
  /\ ValidBlock(NthHashLine(1))
  /\ ~ValidBlock(NthHashLine(2)) /\ HasMetadataAndSubject(NthHashLine(2))


\* ------------------------------------------------------- empty inputs (C3)

\* A text that is empty or white space only.
BlankText == \A i \in DOMAIN log_output : ~Visible(log_output[i])

\* C3: empty input gives an empty result at every stage and never an error:
\* parse_git_log of an empty or whitespace-only text returns the empty list,
\* normalize_metrics({}) returns {}, calculate_contributor_score({}) returns
\* {}, calculate_recency_score([]) returns {} and rank_contributors({})
\* returns [].
C3_EmptyInEmptyOut ==
  /\ ParseCalled /\ BlankText => parsed.out = [err |-> "none", val |-> <<>>]
  /\ recency.fn = "calculate_recency_score" /\ commits = <<>> => recency.val = <<>>
  /\ call.fn = "normalize_metrics" /\ call.arg.keys = <<>>
       => call.out = [err |-> "none", val |-> [keys |-> <<>>, m |-> <<>>]]
  /\ call.fn = "calculate_contributor_score" /\ call.arg.keys = <<>>
       => call.out = [keys |-> <<>>, m |-> <<>>]
  /\ call.fn = "rank_contributors" /\ call.arg.keys = <<>>
       => call.out = [err |-> "none", val |-> <<>>]

\* The parser called on a text of blank lines and white space, the recency
\* score on the empty list and the ranking on the empty mapping.
C3_Witness ==
  /\ ParseCalled
  /\ BlankText
  /\ Len(log_output) >= 2
  /\ \E i \in DOMAIN log_output : log_output[i] = <<" ">>
  /\ parsed.out.val = <<>>
  /\ recency.fn = "calculate_recency_score" /\ commits = <<>>
  /\ call.fn = "rank_contributors" /\ call.arg.keys = <<>> /\ call.out.val = <<>>


\* ------------------------------------ zero maxima and missing fields (C11, C12)

\* A field of a raw stats entry, 0 when it is left out.
Field(m, k) == IF k \in DOMAIN m THEN m[k] ELSE 0

Dated(m) == {"first_commit_date", "last_commit_date"} \subseteq DOMAIN m

\* The raw quantity of an entry for one of the three scaled metrics; an entry
\* without both dates has no time span and counts as 0.
Quantity(m, metric) ==
  CASE metric = "longevity" ->
         IF Dated(m)
         THEN ((m.last_commit_date.t - m.first_commit_date.t) \div 2) + 1
         ELSE 0
    [] metric = "lines" -> Field(m, "total_lines_added") + Field(m, "total_lines_deleted")
    [] metric = "commits" -> Field(m, "total_commits")

\* The largest raw quantity of the metric over the authors of the mapping.
MaxQuantity(raw, metric) ==
  CHOOSE q \in {Quantity(raw.m[a], metric) : a \in KeysOf(raw)} :
    \A a \in KeysOf(raw) : Quantity(raw.m[a], metric) <= q

\* C11: normalize_metrics never divides by zero: for each of longevity, lines
\* and commits, when the largest raw quantity over the authors is 0, every
\* author's normalized value of the metric is 0 and no error is raised.  The
\* code breaks it for longevity: the time span is 0 when the last commit lies
\* less than a day before the first, and the span is divided by that maximum.
C11_ZeroMaxGivesZero ==
  NormalizeCalled =>
    /\ call.out.err = "none"
    /\ \A metric \in {"longevity", "lines", "commits"} :
         MaxQuantity(call.arg, metric) = 0 =>
           \A author \in KeysOf(call.arg) : call.out.val.m[author][metric] = Zero

\* The dates an entry has are in order (the case C11 is about put aside).
DatesInOrder(raw) ==
  \A a \in KeysOf(raw) :
    Dated(raw.m[a]) => raw.m[a].first_commit_date.t <= raw.m[a].last_commit_date.t

\* The value the specification gives a scaled metric: the quantity over the
\* largest one, 0 when the largest is 0.
Scaled(raw, author, metric) ==
  IF MaxQuantity(raw, metric) > 0
  THEN Rat(Quantity(raw.m[author], metric), MaxQuantity(raw, metric))
  ELSE Zero

\* C12: rank_contributors does not raise over fields left out of an author's
\* stats: on every mapping whose dates, where an author has both, are in
\* order, it returns a ranking in which every author appears; an author
\* without first_commit_date or last_commit_date has longevity 0, and line
\* and commit counters left out count as 0.
C12_MissingFieldsNeverRaise ==
  RankCalled /\ call.arg.keys # <<>> /\ DatesInOrder(call.arg) =>
    /\ call.out.err = "none"
    /\ \A author \in KeysOf(call.arg) :
         \E i \in DOMAIN call.out.val :
           /\ call.out.val[i].author = author
           /\ ~Dated(call.arg.m[author]) => call.out.val[i].metrics.longevity = Zero
           /\ call.out.val[i].metrics.lines = Scaled(call.arg, author, "lines")
           /\ call.out.val[i].metrics.commits = Scaled(call.arg, author, "commits")

\* A ranking of an author with no field at all and an author with commits
\* and a last commit date only: both are ranked, the first with every metric
\* 0, the second with longevity 0 and the whole of lines and commits.
C12_Witness ==
  /\ RankCalled
  /\ call.out.err = "none"
  /\ \E a, b \in KeysOf(call.arg) :
       /\ call.arg.m[a] = <<>>
       /\ DOMAIN call.arg.m[b] = {"total_commits", "total_lines_added", "last_commit_date"}
       /\ \E i, j \in DOMAIN call.out.val :
            /\ call.out.val[i].author = a /\ call.out.val[i].score = Zero
            /\ call.out.val[j].author = b
            /\ call.out.val[j].metrics.longevity = Zero
            /\ call.out.val[j].metrics.lines = One
            /\ call.out.val[j].metrics.commits = One


\* ------------------------------------- extract_commit_info (C13 .. C18)

ExtractCalled == extracted.fn = "extract_commit_info"

ParseBlockCalled == parsed.fn = "parse_git_log" /\ block.head # <<>>

\* The lines of the block as written.
Data == block.head \o block.more

\* The lines of the block that are not blank, and the last of them: the
\* length of the block once trimmed.
NonBlank == {i \in DOMAIN Data : Visible(Data[i])}
TrimmedLen == IF NonBlank = {} THEN 0 ELSE CHOOSE i \in NonBlank : \A j \in NonBlank : j <= i

Discarded ==
  /\ ExtractCalled => extracted.out = [err |-> "none", val |-> [none |-> TRUE]]
  /\ ParseBlockCalled => parsed.out = [err |-> "none", val |-> <<>>]

\* C13 as stated: a block with fewer than 4 non-empty lines is discarded:
\* extract_commit_info returns None for it and parse_git_log adds nothing to
\* its output for it, and neither raises.
C13_FewNonEmptyLinesDiscarded ==
  (ExtractCalled \/ ParseBlockCalled) /\ Cardinality(NonBlank) < 4 => Discarded

\* C13 amended: a block with fewer than 4 lines, counted after the block is
\* trimmed and with the blank lines inside it, is discarded in that way.
C13_FewLinesDiscarded ==
  (ExtractCalled \/ ParseBlockCalled) /\ TrimmedLen < 4 => Discarded

\* extract_commit_info called on a block of three lines and blank lines
\* after them: it returns None.
C13_Witness ==
  /\ ExtractCalled
  /\ TrimmedLen = 3
  /\ Len(Data) > 3
  /\ extracted.out.val.none

\* The Author line of the header: the first of the three lines after the
\* hash that starts with the label.
AuthorLines == {i \in 2 .. 4 : i <= TrimmedLen /\ Data[i] # <<>> /\ Data[i][1] = "Author:"}
AuthorText == Tail(Data[CHOOSE i \in AuthorLines : \A j \in AuthorLines : i <= j])
HasAuthorText == AuthorLines # {} /\ AuthorText # <<>>

\* The text has the form Name <email>.
IsNameEmail(text) ==
  /\ Len(text) >= 3
  /\ text[Len(text)] = ">"
  /\ \E i \in 1 .. Len(text) - 2 : text[i] = "<"

OpenAt(text) == CHOOSE i \in 1 .. Len(text) - 2 : text[i] = "<" /\ \A j \in 1 .. i - 1 : text[j] # "<"

Placeholder == <<"unknown@example.com">>

\* The Commit extract_commit_info returned.
Got == extracted.out.val

\* The author of a block with the label: name and address of "Name <email>",
\* the whole text and the placeholder otherwise.
LabelledAuthorRight ==
  IF IsNameEmail(AuthorText)
  THEN /\ Got.author_name = SubSeq(AuthorText, 1, OpenAt(AuthorText) - 1)
       /\ Got.author_email = SubSeq(AuthorText, OpenAt(AuthorText) + 1, Len(AuthorText) - 1)
  ELSE /\ Got.author_name = AuthorText
       /\ Got.author_email = Placeholder

DateLines == {i \in 2 .. 6 : i <= TrimmedLen /\ Data[i] # <<>> /\ Data[i][1] = "Date:"}
DateText == Tail(Data[CHOOSE i \in DateLines : \A j \in DateLines : i <= j])

\* The datetime each date text stands for: midnight of 9 April 2024 and of
\* 10 March 2024, UTC, in ticks of 12 hours counted from 31 December 2023;
\* the current time for a text no format reads.
ExpectedDate(text) ==
  CASE text = <<"2024-04-09T00:00:00+00:00">> -> [t |-> 200, aware |-> TRUE, off |-> 0]
    [] text = <<"Tue", "Apr", "9", "00:00:00", "2024", "+0000">>
         -> [t |-> 200, aware |-> TRUE, off |-> 0]
    [] text = <<"2024-03-10", "00:00:00", "+0000">> -> [t |-> 140, aware |-> TRUE, off |-> 0]
    [] OTHER -> [t |-> 240, aware |-> FALSE, off |-> 0]

\* C15: the date never fails the commit: the text after "Date:" is read as
\* ISO-8601, else as "Weekday Mon D HH:MM:SS YYYY +ZZZZ", else as
\* "YYYY-MM-DD HH:MM:SS +ZZZZ"; the first format that fits gives the date,
\* and when none fits the date is the current time and the Commit is still
\* returned.
C15_DateFromFirstFormat ==
  ExtractCalled /\ TrimmedLen >= 4 /\ DateLines # {} /\ DateText # <<>> =>
    /\ extracted.out.err = "none"
    /\ ~Got.none
    /\ Got.date = ExpectedDate(DateText)

\* A block whose date is in git's default format, read by the second
\* attempt, and the Commit carries it.
C15_Witness ==
  /\ ExtractCalled
  /\ ~Got.none
  /\ DateLines # {}
  /\ DateText = <<"Tue", "Apr", "9", "00:00:00", "2024", "+0000">>
  /\ Got.date = [t |-> 200, aware |-> TRUE, off |-> 0]

\* A block as git log writes it: the hash, the Author line, the Date line,
\* and at least one line of message or of statistics after them.
GitHeader ==
  /\ TrimmedLen >= 4
  /\ Data[2] # <<>> /\ Data[2][1] = "Author:"
  /\ Data[3] # <<>> /\ Data[3][1] = "Date:"

\* A line without its leading white space.
Trimmed(line) == IF line # <<>> /\ line[1] = " " THEN Tail(line) ELSE line

\* The lines after the header that are not blank; the first is the subject.
MessageLines == {i \in 4 .. TrimmedLen : Visible(Data[i])}
SubjectAt == CHOOSE i \in MessageLines : \A j \in MessageLines : i <= j

\* A line of the message that begins like a header line.
Labelled(line) == line # <<>> /\ line[1] \in {"Author:", "Date:"}
LabelInMessage == \E i \in 4 .. TrimmedLen : Labelled(Data[i])

\* C16: for every commit block with the Author and Date header lines, the
\* subject is the first non-blank line after the header lines, whatever the
\* later lines of the message contain, lines that begin with "Author:" or
\* "Date:" included.
C16_SubjectAfterHeader ==
  ExtractCalled /\ GitHeader =>
    /\ extracted.out.err = "none"
    /\ ~Got.none
    /\ Got.subject = Trimmed(Data[SubjectAt])

\* A file-stat line: "<added or -> <deleted or -> <path>".
StatCount(tok) == tok \in {"0", "1", "5", "-"}
StatForm(line) ==
  LET t == Trimmed(line)
  IN  Len(t) >= 3 /\ StatCount(t[1]) /\ StatCount(t[2])

\* The first file-stat line after the subject, or the end of the block.
StatAfterSubject == {i \in SubjectAt + 1 .. TrimmedLen : StatForm(Data[i])}
FirstStat ==
  IF StatAfterSubject = {} THEN TrimmedLen + 1
  ELSE CHOOSE i \in StatAfterSubject : \A j \in StatAfterSubject : i <= j

\* The lines between the subject and the first file-stat line, trimmed as a
\* text: without the blank lines at its two ends.
BodyLines == {i \in SubjectAt + 1 .. FirstStat - 1 : Visible(Data[i])}
ExpectedBody ==
  IF BodyLines = {} THEN <<>>
  ELSE LET lo == CHOOSE i \in BodyLines : \A j \in BodyLines : i <= j
           hi == CHOOSE i \in BodyLines : \A j \in BodyLines : j <= i
       IN  <<Trimmed(Data[lo])>> \o SubSeq(Data, lo + 1, hi)

\* C17: for every commit block, the body is exactly the lines after the
\* subject up to, and not including, the first file-stat line of the block,
\* joined and trimmed; no file-stat line is part of the body, and the body is
\* empty when the statistics directly follow the subject. Stated for the
\* blocks with a subject that is not itself a file-stat line and with no
\* line of the message that begins like a header line.
C17_BodyStopsAtFirstStat ==
  ExtractCalled /\ GitHeader /\ ~LabelInMessage /\ ~StatForm(Data[SubjectAt]) =>
    /\ extracted.out.err = "none"
    /\ ~Got.none
    /\ Got.body = ExpectedBody

\* The file-stat lines of the block, in the order of the block, and the path
\* each one names.
StatLinesOf(n) == {i \in 4 .. n : StatForm(Data[i])}
RECURSIVE ExpectedPaths(_)
ExpectedPaths(n) ==
  IF n < 4 THEN <<>>
  ELSE IF StatForm(Data[n])
       THEN Append(ExpectedPaths(n - 1), SubSeq(Trimmed(Data[n]), 3, Len(Trimmed(Data[n]))))
       ELSE ExpectedPaths(n - 1)

\* C18: for every commit block, the files of the Commit have exactly one
\* entry for each file-stat line of the block, the binary "-" lines
\* included and also when the subject is empty, in the order of the input
\* and without deduplication; the lines that are not of the form are
\* skipped. Stated for the blocks with no line of the message that begins
\* like a header line.
C18_OneEntryPerStatLine ==
  ExtractCalled /\ GitHeader /\ ~LabelInMessage =>
    /\ extracted.out.err = "none"
    /\ ~Got.none
    /\ Len(Got.files) = Len(ExpectedPaths(TrimmedLen))
    /\ \A k \in DOMAIN Got.files : Got.files[k].path = ExpectedPaths(TrimmedLen)[k]

\* ------------------------------------- extract_file_changes (C19, C20)

FilesCalled == changes.fn = "extract_file_changes"

\* The file-stat lines among the lines given, trimmed, in their order.
RECURSIVE StatSeq(_)
StatSeq(n) ==
  IF n = 0 THEN <<>>
  ELSE IF StatForm(file_lines[n])
       THEN Append(StatSeq(n - 1), Trimmed(file_lines[n]))
       ELSE StatSeq(n - 1)

StatLines == StatSeq(Len(file_lines))

\* The list extract_file_changes returned.
Entries == changes.out.val

Returned == FilesCalled /\ changes.out.err = "none"

\* The number a count stands for.
Number(tok) == CASE tok = "0" -> 0 [] tok = "1" -> 1 [] tok = "5" -> 5 [] OTHER -> 0

\* C19 as stated: a stat line whose added count or deleted count is "-" is
\* a binary change: lines_added and lines_deleted are both 0 and is_binary
\* is true; a line with two numeric counts has is_binary false.
C19_EitherDashIsBinary ==
  Returned =>
    /\ Len(Entries) = Len(StatLines)
    /\ \A k \in DOMAIN Entries :
         IF StatLines[k][1] = "-" \/ StatLines[k][2] = "-"
         THEN /\ Entries[k].lines_added = 0
              /\ Entries[k].lines_deleted = 0
              /\ Entries[k].is_binary
         ELSE ~Entries[k].is_binary

\* C19 amended: is_binary is true exactly when both counts are "-"; each of
\* lines_added and lines_deleted is 0 when its own count is "-" and the
\* number written otherwise.
C19_BothDashesIsBinary ==
  Returned =>
    /\ Len(Entries) = Len(StatLines)
    /\ \A k \in DOMAIN Entries :
         /\ Entries[k].is_binary <=> (StatLines[k][1] = "-" /\ StatLines[k][2] = "-")
         /\ Entries[k].lines_added = (IF StatLines[k][1] = "-" THEN 0 ELSE Number(StatLines[k][1]))
         /\ Entries[k].lines_deleted = (IF StatLines[k][2] = "-" THEN 0 ELSE Number(StatLines[k][2]))

\* A call with a line of two "-" and a line of one: the first entry is
\* binary, the second is not and keeps its number.
C19_Witness ==
  /\ Returned
  /\ \E j, k \in DOMAIN Entries :
       /\ StatLines[j][1] = "-" /\ StatLines[j][2] = "-" /\ Entries[j].is_binary
       /\ StatLines[k][1] = "-" /\ StatLines[k][2] = "5"
       /\ ~Entries[k].is_binary /\ Entries[k].lines_deleted = 5

\* The path written on a stat line, and where its first " => " is.
PathOf(t) == SubSeq(t, 3, Len(t))
Arrows(path) == {i \in 2 .. Len(path) - 1 : path[i] = "=>"}
FirstArrow(path) == CHOOSE i \in Arrows(path) : \A j \in Arrows(path) : i <= j

\* C20: a stat line whose path contains " => " yields old_path = the left
\* side, path = the right side and is_renamed true; every other stat line
\* yields is_renamed false, no old_path, and path, lines_added and
\* lines_deleted as written on the line. is_renamed is true exactly when
\* old_path is present.
C20_RenameSplitsPath ==
  FilesCalled =>
    /\ changes.out.err = "none"
    /\ Len(Entries) = Len(StatLines)
    /\ \A k \in DOMAIN Entries :
         LET path == PathOf(StatLines[k])
         IN  /\ Entries[k].is_renamed <=> "old_path" \in DOMAIN Entries[k]
             /\ Entries[k].lines_added = Number(StatLines[k][1])
             /\ Entries[k].lines_deleted = Number(StatLines[k][2])
             /\ IF Arrows(path) # {}
                THEN /\ Entries[k].is_renamed
                     /\ Entries[k].old_path = SubSeq(path, 1, FirstArrow(path) - 1)
                     /\ Entries[k].path = SubSeq(path, FirstArrow(path) + 1, Len(path))
                ELSE /\ ~Entries[k].is_renamed
                     /\ Entries[k].path = path

\* ----------------------------- grouping and aggregate stats (C21 .. C24)

\* The identity string of a commit's author: "Name <email>".
Identity(commit) == commit.author_name \o <<"<">> \o commit.author_email \o <<">">>

\* The position in the input of a commit (each has a hash of its own).
PositionOf(commit) == CHOOSE i \in DOMAIN history : history[i] = commit

\* The places of a grouping where a commit is listed: a key and an index.
PlacesOf(groups, commit) ==
  {<<key, j>> \in (DOMAIN groups.m) \X (1 .. MaxHistory + 1) :
     j \in DOMAIN groups.m[key] /\ groups.m[key][j] = commit}

\* Every list of a grouping holds commits of the input, in the order of
\* the input.
KeepsOrder(groups) ==
  \A key \in DOMAIN groups.m :
    /\ groups.m[key] # <<>>
    /\ \A j \in DOMAIN groups.m[key] : \E i \in DOMAIN history : history[i] = groups.m[key][j]
    /\ \A j, k \in DOMAIN groups.m[key] :
         j < k => PositionOf(groups.m[key][j]) <= PositionOf(groups.m[key][k])

GroupedByAuthor == grouped.fn = "group_commits_by_author"

\* C21: group_commits_by_author partitions the commits by the identity
\* string "Name <email>": every input commit appears exactly once, under
\* its own author key; each group keeps the original relative order; two
\* commits with the same name and different emails are under different keys.
C21_PartitionByIdentity ==
  GroupedByAuthor =>
    /\ \A i \in DOMAIN history :
         PlacesOf(grouped.out, history[i]) = {<<Identity(history[i]), 1>>}
           \/ \E j \in 2 .. MaxHistory + 1 :
                PlacesOf(grouped.out, history[i]) = {<<Identity(history[i]), j>>}
    /\ KeepsOrder(grouped.out)
    /\ \A i, j \in DOMAIN history :
         /\ history[i].author_name = history[j].author_name
         /\ history[i].author_email # history[j].author_email
         => \A x \in PlacesOf(grouped.out, history[i]), y \in PlacesOf(grouped.out, history[j]) :
              x[1] # y[1]

\* A grouping of commits of one name under two addresses, one address with
\* two commits: two keys, and the two commits in their order under one.
C21_Witness ==
  /\ GroupedByAuthor
  /\ \E i, j, k \in DOMAIN history :
       /\ i < j
       /\ Identity(history[i]) = Identity(history[j])
       /\ history[k].author_name = history[i].author_name
       /\ history[k].author_email # history[i].author_email
       /\ Len(grouped.out.m[Identity(history[i])]) >= 2
       /\ Identity(history[k]) \in DOMAIN grouped.out.m

GroupedByFile == grouped.fn = "group_commits_by_file"

\* The paths a commit has a file entry for.
Touched(commit) == {commit.files[j].path : j \in DOMAIN commit.files}

\* C22: group_commits_by_file maps each file path to the commits that
\* touched it, in the original relative order: a commit with N file entries
\* appears under N path keys, once under each, and a path key exists exactly
\* when some commit has a file entry with that path.
C22_OnceUnderEachPath ==
  GroupedByFile =>
    /\ DOMAIN grouped.out.m = UNION {Touched(history[i]) : i \in DOMAIN history}
    /\ KeepsOrder(grouped.out)
    /\ \A i \in DOMAIN history :
         LET places == PlacesOf(grouped.out, history[i])
             keys == {x[1] : x \in places}
         IN  /\ keys = Touched(history[i])
             /\ Cardinality(keys) = Len(history[i].files)
             /\ Cardinality(places) = Cardinality(keys)

FileStatsCalled == grouped.fn = "calculate_file_stats"

\* The commits that touch the path asked about.
Touching == {i \in DOMAIN history : grouped.file_path \in Touched(history[i])}

\* The point in time of a datetime.
Instant(date) == date.t - date.off

\* The dates can be compared with each other: all with an offset, or none.
Comparable(S) == \A i, j \in S : history[i].date.aware = history[j].date.aware

\* The counts of the entries a commit has for a path.
RECURSIVE OwnCount(_, _, _)
OwnCount(files, path, k) ==
  IF files = <<>> THEN 0
  ELSE (IF files[1].path = path THEN files[1][k] ELSE 0) + OwnCount(Tail(files), path, k)

\* The counts of the first n commits for a path.
RECURSIVE OwnTotal(_, _, _)
OwnTotal(n, path, k) ==
  IF n = 0 THEN 0 ELSE OwnCount(history[n].files, path, k) + OwnTotal(n - 1, path, k)

\* first and last are the earliest and the latest date of the commits of S,
\* and None when there is none.
EarliestAndLatest(S, first, last) ==
  IF S = {} THEN first = [none |-> TRUE] /\ last = [none |-> TRUE]
  ELSE /\ \E i \in S : first = history[i].date
       /\ \E i \in S : last = history[i].date
       /\ \A i \in S : Instant(first) <= Instant(history[i].date)
       /\ \A i \in S : Instant(history[i].date) <= Instant(last)

\* C23: calculate_file_stats(commits, path) is restricted to the commits
\* touching the path: authors is the distinct author set of those commits,
\* total_commits is the number of those commits, total_lines_added and
\* total_lines_deleted sum only that file's own counts within each commit,
\* and first and last commit date are the min and max timestamps of those
\* commits (None when no commit touches the path). Stated for the lists in
\* which the dates of those commits can be compared with each other.
C23_FileStatsOfTouchingCommits ==
  FileStatsCalled /\ Comparable(Touching) =>
    /\ grouped.out.err = "none"
    /\ grouped.out.val.authors = {Identity(history[i]) : i \in Touching}
    /\ grouped.out.val.total_commits = Cardinality(Touching)
    /\ grouped.out.val.total_lines_added = OwnTotal(Len(history), grouped.file_path, "lines_added")
    /\ grouped.out.val.total_lines_deleted = OwnTotal(Len(history), grouped.file_path, "lines_deleted")
    /\ EarliestAndLatest(Touching, grouped.out.val.first_commit_date,
                         grouped.out.val.last_commit_date)

AuthorStatsCalled == grouped.fn = "calculate_author_stats"

\* The commits of an author.
CommitsBy(author) == {i \in DOMAIN history : Identity(history[i]) = author}

\* The counts of all the file entries of a commit.
RECURSIVE CommitLines(_, _)
CommitLines(files, k) ==
  IF files = <<>> THEN 0 ELSE files[1][k] + CommitLines(Tail(files), k)

\* The counts of all the files of the commits of an author among the first n.
RECURSIVE LinesBy(_, _, _)
LinesBy(n, author, k) ==
  IF n = 0 THEN 0
  ELSE (IF Identity(history[n]) = author THEN CommitLines(history[n].files, k) ELSE 0)
         + LinesBy(n - 1, author, k)

\* The values per-author aggregation is to give for an author.
AggregateOf(author, m) ==
  /\ m.total_commits = Cardinality(CommitsBy(author))
  /\ m.total_lines_added = LinesBy(Len(history), author, "lines_added")
  /\ m.total_lines_deleted = LinesBy(Len(history), author, "lines_deleted")
  /\ EarliestAndLatest(CommitsBy(author), m.first_commit_date, m.last_commit_date)

\* The function and the fold return, with the values above and the same.
AggregatesAgree ==
  /\ grouped.out.err = "none"
  /\ AggregateOf(grouped.author, grouped.out.val)
  /\ grouped.folded.err = "none"
  /\ grouped.author \in DOMAIN grouped.folded.val.m <=> CommitsBy(grouped.author) # {}
  /\ grouped.author \in DOMAIN grouped.folded.val.m =>
       \A k \in {"total_commits", "total_lines_added", "total_lines_deleted",
                 "first_commit_date", "last_commit_date"} :
         grouped.folded.val.m[grouped.author][k] = grouped.out.val[k]

\* C24: per-author aggregation folds a commit sequence so that for each
\* author total_commits is the number of the author's commits, those
\* without files included, total_lines_added and total_lines_deleted are
\* the sums over all files of all the author's commits, and first and last
\* commit date are the min and max of the author's timestamps;
\* calculate_author_stats and the fold inside get_file_experts give the
\* same values for the same commits.
C24_AuthorAggregatesAgree == AuthorStatsCalled => AggregatesAgree

\* The same for the lists in which the dates of each author can be compared
\* with each other: there it holds.
C24_AgreeOnComparableDates ==
  AuthorStatsCalled /\ (\A i \in DOMAIN history : Comparable(CommitsBy(Identity(history[i]))))
    => AggregatesAgree

\* The stats of an author with a commit without files and a commit with
\* files on another day: both are counted, in the function and in the fold.
C24_BothCounted ==
  /\ AuthorStatsCalled
  /\ grouped.out.err = "none"
  /\ grouped.folded.err = "none"
  /\ \E i, j \in CommitsBy(grouped.author) :
       /\ history[i].files = <<>>
       /\ history[j].files # <<>>
       /\ Instant(history[i].date) # Instant(history[j].date)
  /\ grouped.out.val.total_commits >= 2
  /\ grouped.folded.val.m[grouped.author].total_commits = grouped.out.val.total_commits
  /\ grouped.out.val.first_commit_date # grouped.out.val.last_commit_date


\* ---------------------------------------------------------------- C25

\* The samples of one author in the list a ranking call built, in order.
SamplesOf(author) == SelectSeq(call.samples, LAMBDA c : c.author = author)

\* The recency a ranking call left in the stats of every author: the score of
\* calculate_recency_score over the samples, and 0.0 without a sample.
RecencyFromSamples ==
  LET scores == calculate_recency_score(call.samples, call.months)
  IN  \A author \in DOMAIN call.arg.m :
        /\ Has(stats.m[author], "recency")
        /\ SamplesOf(author) # <<>> =>
             author \in DOMAIN scores /\ stats.m[author].recency = scores[author]
        /\ SamplesOf(author) = <<>> => stats.m[author].recency = Zero

\* The samples the claim gives an author: none without commits, else one at
\* last_commit_date and, with more than one commit, one at first_commit_date.
ByCountAlone(author) ==
  LET m == call.arg.m[author]
      total == GetInt(m, "total_commits")
      S == SamplesOf(author)
  IN  /\ Len(S) = IF total <= 0 THEN 0 ELSE IF total > 1 THEN 2 ELSE 1
      /\ Len(S) >= 1 => Has(m, "last_commit_date") /\ S[1].date = m.last_commit_date
      /\ Len(S) >= 2 => Has(m, "first_commit_date") /\ S[2].date = m.first_commit_date

\* C25 as stated: each author with total_commits > 0 contributes one sample
\* at last_commit_date and, only if total_commits > 1, one more at
\* first_commit_date; authors with total_commits <= 0 contribute none; the
\* recency merged into the stats is the score over these samples, 0.0 for an
\* author without sample.
C25_SamplesByCountAlone ==
  RankCalled => (\A author \in DOMAIN call.arg.m : ByCountAlone(author)) /\ RecencyFromSamples

\* The samples by the dates the stats carry: the one at last_commit_date only
\* if the stats have that date, then the one at first_commit_date if the stats
\* have that date and a commit is left to stand for (more than one commit, or
\* no last_commit_date).
ByCountAndDates(author) ==
  LET m == call.arg.m[author]
      total == GetInt(m, "total_commits")
      last == Has(m, "last_commit_date")
      first == Has(m, "first_commit_date") /\ (total > 1 \/ ~last)
      S == SamplesOf(author)
  IN  IF total <= 0 THEN S = <<>>
      ELSE /\ Len(S) = (IF last THEN 1 ELSE 0) + (IF first THEN 1 ELSE 0)
           /\ last => S[1].date = m.last_commit_date
           /\ first => S[Len(S)].date = m.first_commit_date

\* C25, amended: an author with total_commits > 0 contributes a sample at
\* last_commit_date if the stats have that date, and one more at
\* first_commit_date if the stats have that date and either total_commits > 1
\* or there is no last_commit_date; authors with total_commits <= 0 contribute
\* none; the recency merged into the stats is the score over these samples,
\* 0.0 for an author without sample.
C25_SamplesByCountAndDates ==
  RankCalled => (\A author \in DOMAIN call.arg.m : ByCountAndDates(author)) /\ RecencyFromSamples

\* A ranking of an author whose only sample is at first_commit_date, scored
\* over it, and an author with commits and no sample, left at 0.0.
C25_Witness ==
  /\ RankCalled
  /\ \E author \in DOMAIN call.arg.m :
       /\ ~Has(call.arg.m[author], "last_commit_date")
       /\ Len(SamplesOf(author)) = 1
       /\ Has(stats.m[author], "recency")
  /\ \E author \in DOMAIN call.arg.m :
       /\ GetInt(call.arg.m[author], "total_commits") > 0
       /\ SamplesOf(author) = <<>>
       /\ stats.m[author].recency = Zero

\* ---------------------------------------------------------------- C29

\* The score of an author under a window, 0.0 for an author not scored.
ScoreUnder(author, window_months) ==
  LET scores == calculate_recency_score(commits, window_months)
  IN  IF author \in DOMAIN scores THEN scores[author] ELSE Zero

\* C29: for every commit list and every author the recency score of
\* calculate_recency_score does not decrease when window_months grows: for
\* windows m1 < m2, score(commits, m1)[author] <= score(commits, m2)[author].
C29_WiderWindowScoresNoLess ==
  recency.fn = "calculate_recency_score" =>
    \A author \in DOMAIN recency.val :
      \A m2 \in recency.months + 1 .. 2 * MaxWindow :
        ~RatLT(ScoreUnder(author, m2), recency.val[author])

\* The same for the authors and windows outside the one-month special case of
\* scoring.py:184-193: there it holds.
C29_OutsideSpecialCase ==
  recency.fn = "calculate_recency_score" =>
    \A author \in DOMAIN recency.val :
      (recency.months # 1 \/ author \notin {Alice, Bob}) =>
        \A m2 \in recency.months + 1 .. 2 * MaxWindow :
          ~RatLT(ScoreUnder(author, m2), recency.val[author])


\* ---------------------------------------------------------------- C30

\* The two workflows from the parsed commits on: aggregation per author, then
\* rank_contributors.
RankedFromHistory == grouped.fn \in {"stats", "get_file_experts"}

\* The authors of a ranking.
Ranked(ranking) == {ranking[i].author : i \in DOMAIN ranking}

\* The authors of the commits of the list.
AuthorsOfHistory == {Identity(history[i]) : i \in DOMAIN history}

\* A list with a date with a timezone offset and one without.
MixedDates ==
  \E i, j \in DOMAIN history : history[i].date.aware /\ ~history[j].date.aware

\* C30: for every commit sequence parse_git_log can return, one that mixes
\* dates with a timezone offset and dates that fell back to the offset-less
\* current time included, the aggregation per author followed by
\* rank_contributors completes without error, and every author of the
\* commits is in the ranking.
C30_MixedDatesRanked ==
  RankedFromHistory =>
    /\ grouped.out.err = "none"
    /\ Ranked(grouped.out.val) = AuthorsOfHistory

\* The same where no author has a date with an offset and one without, lists
\* that mix the two kinds between authors included: there it holds.
C30_RankedWhenEachAuthorUniform ==
  RankedFromHistory
    /\ (\A i \in DOMAIN history : Comparable(CommitsBy(Identity(history[i]))))
    => /\ grouped.out.err = "none"
       /\ Ranked(grouped.out.val) = AuthorsOfHistory

\* A list that mixes the two kinds of date between authors, ranked.
C30_MixedBetweenAuthors ==
  RankedFromHistory /\ MixedDates /\ grouped.out.err = "none"


\* ---------------------------------------------------------------- C28

\* The outcome the last call would have had as the first call on the stats as
\* built.
AsFirstCall ==
  LET r == rank_contributors(original, call.weights, call.months)
  IN  [err |-> r.err, val |-> r.val]

\* d without its recency entry.
WithoutRecency(d) == [k \in DOMAIN d \ {"recency"} |-> d[k]]

\* The stats differ from the stats as built in the recency entries only.
OnlyRecencyChanged ==
  /\ stats.keys = original.keys
  /\ DOMAIN stats.m = DOMAIN original.m
  /\ \A author \in DOMAIN stats.m :
       WithoutRecency(stats.m[author]) = WithoutRecency(original.m[author])

InvalidRepository == repo.kind \in {"missing", "plain_dir"}

\* The log text of a file cannot be retrieved: no repository, no such file,
\* or a failing git log.
NoLogOf(file_path) ==
  InvalidRepository \/ file_path \notin DOMAIN repo.tree \/ repo.log_fails

\* get_commit_history raises ValueError for an invalid repository, before any
\* git command is run.
InvalidRepositoryRaisesFirst ==
  run.fn = "get_commit_history" /\ InvalidRepository =>
    run.out.err = "ValueError" /\ run.out.ran = <<>>

\* The stats workflow does not end in success when the log cannot be retrieved.
StatsSurfacesFailure ==
  run.fn = "stats" /\ (InvalidRepository \/ repo.log_fails) =>
    run.out.err # "none" \/ run.out.code # 0

\* get_file_experts does not return an empty list when the log of the file
\* cannot be retrieved, and dris does not end in success when the log of a
\* file it analyzes cannot be.
ExpertsSurfaceFailure ==
  /\ run.fn = "get_file_experts" /\ NoLogOf(run.file_path) => run.out.val # <<>>
  /\ run.fn = "dris"
       /\ (\E i \in DOMAIN run.files :
             run.files[i] \in DOMAIN repo.tree /\ NoLogOf(run.files[i]))
       => run.out.code # 0

\* C26: a failure to retrieve log text (invalid repository, file not in the
\* repository, or failing git command) is a hard error surfaced to the
\* caller: get_commit_history raises ValueError for an invalid repository
\* before running any git command, and neither the stats workflow nor the
\* per-file expert workflow turns a retrieval failure into a successful empty
\* result.
C26_RetrievalFailureSurfaced ==
  InvalidRepositoryRaisesFirst /\ StatsSurfacesFailure /\ ExpertsSurfaceFailure

\* What holds of the retrieval itself: for an invalid repository
\* get_commit_history raises ValueError and has run no git log (at most the
\* git rev-parse of validate_repo), a failing git log reaches its caller, and
\* the stats workflow ends with exit code 1 on either.
C26_RaisedAndSurfacedByStats ==
  /\ run.fn = "get_commit_history" /\ InvalidRepository =>
       /\ run.out.err = "ValueError"
       /\ \A i \in DOMAIN run.out.ran : run.out.ran[i] = "rev-parse"
  /\ run.fn = "get_commit_history" /\ ~InvalidRepository /\ repo.log_fails =>
       run.out.err = "CalledProcessError"
  /\ StatsSurfacesFailure

\* dris on a file whose git log fails, ended with exit code 0 and no expert.
C26_FailureShownAsNoExperts ==
  /\ run.fn = "dris"
  /\ repo.log_fails
  /\ run.out.code = 0
  /\ run.out.caught # <<>>
  /\ \A f \in DOMAIN run.out.file_experts.m : run.out.file_experts.m[f] = <<>>


\* ---------------------------------------------------------------- C27

DrisCalled == run.fn = "dris"

\* The orders in which the files of the call can be listed.
Reorderings ==
  {[i \in DOMAIN run.files |-> run.files[p[i]]] :
     p \in {q \in [DOMAIN run.files -> DOMAIN run.files] :
              \A i, j \in DOMAIN run.files : q[i] = q[j] => i = j}}

\* What dris gives for the files in another order.
Reordered(files) == dris_execute(repo, run.months, files, run.top)

\* C27: the reviewer-identification workflow is insensitive to the order in
\* which files are processed: for every permutation of the same list of valid
\* files dris produces the same per-file top-N expert lists and the same
\* overall expert list (authors, scores and order).
C27_FileOrderDoesNotMatter ==
  DrisCalled =>
    \A files \in Reorderings :
      /\ Reordered(files).file_experts.m = run.out.file_experts.m
      /\ Reordered(files).overall_experts = run.out.overall_experts

\* The overall experts of the call before the cut at top.
AllOverall == dris_execute(repo, run.months, run.files, 2 * MaxListed).overall_experts

\* What holds: the experts of each file never depend on the order, and the
\* overall experts do not when no two authors have the same overall score.
C27_SameUnlessScoresTie ==
  DrisCalled =>
    \A files \in Reorderings :
      /\ Reordered(files).file_experts.m = run.out.file_experts.m
      /\ (\A i, j \in DOMAIN AllOverall :
            AllOverall[i].score = AllOverall[j].score => i = j)
           => Reordered(files).overall_experts = run.out.overall_experts

\* Two files, each with experts, listed to dris, with two overall experts of
\* different scores.
C27_TwoFilesRanked ==
  /\ DrisCalled
  /\ Len(run.files) = 2
  /\ \A f \in DOMAIN run.out.file_experts.m : run.out.file_experts.m[f] # <<>>
  /\ Cardinality(DOMAIN run.out.file_experts.m) = 2
  /\ Len(run.out.overall_experts) = 2
  /\ run.out.overall_experts[1].score # run.out.overall_experts[2].score


====
